---- MODULE Spec2Model ----
(***************************************************************************)
(* A model of the architect orchestrator: the Supervisor scheduler         *)
(* (src/architect/supervisor.py), the ResilientBackend dispatcher          *)
(* (src/architect/backends/resilient.py) and the GitNotesStore state       *)
(* store (src/architect/state/git_notes.py).                               *)
(*                                                                         *)
(* Sixteen specifications share the module:                                    *)
(*   Spec         Supervisor.run() of one process, run after run, under    *)
(*                every workflow configuration;                            *)
(*   SpecLease    Supervisor.run() of two processes that race for the run  *)
(*                lease over one state store while the clock advances;     *)
(*   SpecBackend  one ResilientBackend call (retry, failover, chunks);     *)
(*   SpecStore    GitNotesStore.set_json / update_json of several store    *)
(*                instances over one file, step by step under the lock;    *)
(*   SpecPatch    PatchStackManager (src/architect/state/patches.py) over  *)
(*                a repository: listing, resolving, rejecting, rollback;   *)
(*   SpecHeartbeat  the lease calls of two run() invocations over one      *)
(*                store, each call in two steps: clock read, then update.  *)
(*   SpecPause    Supervisor.run() of one process, run after run, while    *)
(*                pause() and resume() are called from outside.            *)
(*   SpecTools    the tool policy of SpecialistAgent.run and of the        *)
(*                Supervisor's _run_specialist over lists of tool names.   *)
(*   SpecAppend   GitNotesStore.add_decision / add_checkpoint of several   *)
(*                store instances over one namespace, step by step.        *)
(*   SpecCoverage the testing gate of _evaluate_gate over the outputs of   *)
(*                a test command.                                          *)
(*   SpecGraph    _create_task_graph over plans, pending modify tasks and  *)
(*                chunk sizes.                                             *)
(*   SpecAttempts the attempt loop of run() over the tasks of one run, the *)
(*                replan apart from the attempt.                           *)
(*   SpecTermination  run() of one process under weak fairness of its      *)
(*                steps, over a few settings.                              *)
(*   SpecRelease  run() of one process with the calls that may raise: the *)
(*                supervisor decomposition before the try block, a         *)
(*                specialist inside it.                                    *)
(*   SpecStream   the stdout loop of CodexBackend.execute and of           *)
(*                ClaudeCodeBackend.execute, line by line.                 *)
(*   SpecMetrics  the writers of the metrics namespace, get_metrics then   *)
(*                set_metrics, of several store instances, step by step.   *)
(***************************************************************************)
EXTENDS Integers, Sequences, FiniteSets, TLC

(***************************************************************************)
(* Bounds of the model.                                                    *)
(***************************************************************************)
\* plan steps a planner output may hold (the code keeps up to 24)
MaxSteps == 2
\* pending modify tasks found in the stored queue when a run starts
MaxModify == 1
\* the clock runs from 0 to MaxTime
MaxTime == 2
\* run() invocations over all processes
MaxRuns == 2
\* largest workflow.task_max_attempts tried
MaxAttempts == 2
\* largest workflow.max_parallel_tasks tried
MaxParallel == 2
\* largest workflow.max_patches_before_review tried
MaxChunk == 2
\* steps taken on the repository: commits, writes and calls of the manager
MaxPatchCalls == 3

\* lease_ttl = max(30.0, 2 * timeout_seconds), in clock ticks
LeaseTTL == 1

\* the Supervisor processes that share the working tree and its state store
Procs == {1, 2}

NoRun == 0
NoTask == <<"none", 0>>
PlanId == <<"plan", 1>>
DocumentId == <<"document", 1>>

VARIABLES
    \* Supervisor (Spec, SpecLease)
    store,      \* namespace -> the data of its envelope
    now,        \* the wall clock (time.time(), _utcnow_iso)
    config,     \* the ArchitectConfig in force, and whether git is available
    runs_started, \* run() invocations so far
    sup,        \* per process: the locals of its Supervisor.run() invocation
    \* ResilientBackend (SpecBackend)
    rb,         \* the locals of one call of the dispatcher
    trace,      \* the hook's events and the backend invocations, in order
    \* GitNotesStore (SpecStore)
    disk,       \* the stored payload of one namespace
    lock,       \* the store instance whose lock file exists, or 0
    inst,       \* per store instance: the locals of its set_json / update_json
    ops_started, \* store operations started so far
    written,    \* history: the envelopes written so far, each with its writer
    \* PatchStackManager (SpecPatch)
    git,        \* the repository: commits, branches, tags, working tree
    metrics,    \* the metrics namespace: patch_index, patch_lifecycle, patch_stack
    pcall,      \* the last call of the manager and what it returned
    pcalls,     \* steps taken on the repository so far
    \* the functions of the policy layer (SpecTools, SpecCoverage, SpecGraph),
    \* the attempt loop on its own (SpecAttempts), a backend's stdout loop
    \* (SpecStream)
    fcall       \* the last call of such a function: its input and outcome;
                \* or the locals of the loop and what it has done so far

supVars == <<store, now, config, runs_started, sup>>
backendVars == <<rb, trace>>
storeVars == <<disk, lock, inst, ops_started, written>>
patchVars == <<git, metrics, pcall, pcalls>>
fnVars == <<fcall>>
vars == <<supVars, backendVars, storeVars, patchVars, fnVars>>

Min(a, b) == IF a < b THEN a ELSE b
Max(a, b) == IF a > b THEN a ELSE b

(***************************************************************************)
(* WorkTask and the task graph.                                            *)
(***************************************************************************)
WorkTask(id, type, depends_on) ==
    [id |-> id, type |-> type, status |-> "pending",
     depends_on |-> depends_on, failure_reason |-> "none"]

\* the ids of a sequence of tasks, in order
TaskIds(tasks) == [i \in 1..Len(tasks) |-> tasks[i].id]

SeqRange(s) == {s[i] : i \in 1..Len(s)}

\* the chunk loop of _create_task_graph: one iteration per chunk_start
RECURSIVE ChunkLoop(_, _, _, _, _, _)
ChunkLoop(implementation_tasks, max_chunk, critic, chunk_start, previous_gate_id, tasks) ==
    IF chunk_start >= Len(implementation_tasks) THEN
        Append(tasks, WorkTask(DocumentId, "document", {previous_gate_id}))
    ELSE
        LET chunk_index == (chunk_start \div max_chunk) + 1
            chunk == SubSeq(implementation_tasks, chunk_start + 1,
                            Min(chunk_start + max_chunk, Len(implementation_tasks)))
            rewired == [i \in 1..Len(chunk) |->
                           [chunk[i] EXCEPT !.depends_on = {previous_gate_id}]]
            implement_ids == SeqRange(TaskIds(chunk))
            test_task_id == <<"test", chunk_index>>
            review_task_id == <<"review", chunk_index>>
            with_test == Append(tasks \o rewired,
                                WorkTask(test_task_id, "test", implement_ids))
        IN  IF critic THEN
                ChunkLoop(implementation_tasks, max_chunk, critic,
                          chunk_start + max_chunk, review_task_id,
                          Append(with_test,
                                 WorkTask(review_task_id, "review", {test_task_id})))
            ELSE
                ChunkLoop(implementation_tasks, max_chunk, critic,
                          chunk_start + max_chunk, test_task_id, with_test)

\* _create_task_graph with every implementation task in one chunk
CreateTaskGraphOneChunk(n_steps, modify_tasks, max_patches_before_review, critic) ==
    LET steps == IF n_steps = 0 THEN 1 ELSE n_steps
        implementation_tasks ==
            modify_tasks \o
            [i \in 1..steps |-> WorkTask(<<"implement", i>>, "implement", {PlanId})]
    IN  ChunkLoop(implementation_tasks, Len(implementation_tasks), critic,
                  0, PlanId, <<WorkTask(PlanId, "plan", {})>>)

\* Supervisor._create_task_graph: n_steps plan steps (an empty plan becomes one
\* synthetic step), the pending modify tasks first
CreateTaskGraph(n_steps, modify_tasks, max_patches_before_review, critic) ==
    LET steps == IF n_steps = 0 THEN 1 ELSE n_steps
        implementation_tasks ==
            modify_tasks \o
            [i \in 1..steps |-> WorkTask(<<"implement", i>>, "implement", {PlanId})]
    IN  ChunkLoop(implementation_tasks, Max(1, max_patches_before_review), critic,
                  0, PlanId, <<WorkTask(PlanId, "plan", {})>>)

(***************************************************************************)
(* The state store as the Supervisor sees it: one write is one step.       *)
(***************************************************************************)
\* GitNotesStore.NAMESPACES
NAMESPACES == {"tasks", "decisions", "context", "checkpoints", "metrics"}

\* the namespaces of run records and leases, which the Supervisor reads and
\* writes through get_json / update_json
OperationalNamespaces == {"runs", "leases"}

\* GitNotesStore._validate_namespace does not raise
ValidNamespace(namespace) == namespace \in NAMESPACES \cup OperationalNamespaces

\* GitNotesStore.set_json without expected_revision: the data is replaced
\* whatever is stored (no revision is compared; the envelope's revision is
\* modelled in SpecStore)
SetJson(st, namespace, data) ==
    IF ValidNamespace(namespace) THEN [st EXCEPT ![namespace] = data] ELSE st

\* GitNotesStore.update_json whose read and CAS write meet no other writer
UpdateJson(st, namespace, updated) == SetJson(st, namespace, updated)

NoLease == [run_id |-> NoRun, heartbeat_at |-> 0, expires_epoch |-> 0, task_id |-> NoTask]

DefaultContext ==
    [phase |-> "none", status |-> "none", paused |-> FALSE,
     current_run_id |-> NoRun, preflight |-> 0]

\* the queue a modify command leaves: an implement task with no dependencies
ModifyTask(j) == WorkTask(<<"modify", j>>, "implement", {})

\* Supervisor._upsert_run_record
UpsertRunRecord(st, run_id, status) ==
    UpdateJson(st, "runs",
               IF status = "keep" THEN st.runs
               ELSE [st.runs EXCEPT ![run_id] = status])

\* a lease check that compares the expiry the wrong way round
LeaseConflictExpiryReversed(st, run_id, resume, now_epoch) ==
    LET active == st.leases.active
    IN  /\ active.run_id # NoRun
        /\ active.run_id # run_id
        /\ active.expires_epoch <= now_epoch
        /\ ~resume

\* the updater of Supervisor._acquire_run_lease refuses
LeaseConflict(st, run_id, resume, now_epoch) ==
    LET active == st.leases.active
    IN  /\ active.run_id # NoRun
        /\ active.run_id # run_id
        /\ active.expires_epoch > now_epoch
        /\ ~resume

\* Supervisor._acquire_run_lease, when its updater does not refuse
AcquireRunLease(st, run_id, now_epoch) ==
    LET leased == UpdateJson(st, "leases",
                      [active |-> [run_id |-> run_id, heartbeat_at |-> now_epoch,
                                   expires_epoch |-> now_epoch + LeaseTTL,
                                   task_id |-> NoTask]])
    IN  UpsertRunRecord(leased, run_id, "in_progress")

\* Supervisor._heartbeat_run
HeartbeatRun(st, run_id, task_id, now_epoch) ==
    LET active == st.leases.active
        base == IF active.run_id # run_id
                THEN [NoLease EXCEPT !.run_id = run_id]
                ELSE active
        beat == [base EXCEPT !.heartbeat_at = now_epoch,
                             !.expires_epoch = now_epoch + LeaseTTL,
                             !.task_id = IF task_id # NoTask THEN task_id ELSE @]
    IN  UpsertRunRecord(UpdateJson(st, "leases", [active |-> beat]), run_id, "keep")

\* Supervisor._release_run_lease
ReleaseRunLease(st, run_id, status) ==
    LET active == st.leases.active
        released == UpdateJson(st, "leases",
                        [active |-> IF active.run_id = run_id THEN NoLease ELSE active])
    IN  UpsertRunRecord(released, run_id, status)

(***************************************************************************)
(* Task readiness and status updates.                                      *)
(***************************************************************************)
\* task_by_id = {task.id: task for task in tasks}: the last task of an id wins
HasTask(tasks, id) == \E i \in 1..Len(tasks) : tasks[i].id = id
TaskById(tasks, id) ==
    tasks[CHOOSE i \in 1..Len(tasks) :
            /\ tasks[i].id = id
            /\ \A j \in 1..Len(tasks) : tasks[j].id = id => j <= i]

DepsCompleted(tasks, task) ==
    \A dep_id \in task.depends_on :
        HasTask(tasks, dep_id) /\ TaskById(tasks, dep_id).status = "completed"

\* a readiness test that looks at the status only
IsReadyIgnoringDeps(tasks, task) == task.status = "pending"

IsReady(tasks, task) == task.status = "pending" /\ DepsCompleted(tasks, task)

\* a ready list that takes a task whatever its status
ReadyTasksOfAnyStatus(tasks) == SelectSeq(tasks, LAMBDA task : DepsCompleted(tasks, task))

\* Supervisor._ready_tasks
ReadyTasks(tasks) == SelectSeq(tasks, LAMBDA task : IsReady(tasks, task))

\* a batch that takes several implement or document tasks under git as well
FormBatchOfAnyType(ready_tasks, max_parallel, git_enabled) ==
    IF max_parallel <= 1 THEN <<ready_tasks[1]>>
    ELSE
        LET first_type == ready_tasks[1].type
            same_type_ready == SelectSeq(ready_tasks, LAMBDA task : task.type = first_type)
        IN  SubSeq(same_type_ready, 1, Min(max_parallel, Len(same_type_ready)))

\* the batch the main loop of run() forms from the ready tasks
FormBatch(ready_tasks, max_parallel, git_enabled) ==
    IF max_parallel <= 1 THEN <<ready_tasks[1]>>
    ELSE
        LET first_type == ready_tasks[1].type
            same_type_ready == SelectSeq(ready_tasks, LAMBDA task : task.type = first_type)
        IN  IF git_enabled /\ first_type \in {"implement", "document"}
            THEN <<same_type_ready[1]>>
            ELSE SubSeq(same_type_ready, 1, Min(max_parallel, Len(same_type_ready)))

\* the loop of Supervisor._update_task_status: the first task of the id
UpdateTaskStatus(tasks, task_id, status, reason) ==
    IF ~HasTask(tasks, task_id) THEN tasks
    ELSE
        LET first == CHOOSE i \in 1..Len(tasks) :
                        /\ tasks[i].id = task_id
                        /\ \A j \in 1..Len(tasks) : tasks[j].id = task_id => i <= j
        IN  [tasks EXCEPT ![first] =
                [@ EXCEPT !.status = status,
                          !.failure_reason = IF reason # "none" THEN reason ELSE @]]

\* Supervisor._load_pending_modify_tasks
LoadPendingModifyTasks(queue) ==
    LET modifies == SelectSeq(queue, LAMBDA task :
                        /\ task.id[1] = "modify"
                        /\ task.status \in {"pending", "in_progress", "failed"})
    IN  [i \in 1..Len(modifies) |->
            [modifies[i] EXCEPT !.status = "pending", !.failure_reason = "none",
                                !.depends_on = {PlanId}]]

\* run(): the stored queue, tasks found in_progress demoted to pending
ExistingTasks(queue) ==
    [i \in 1..Len(queue) |->
        IF queue[i].status = "in_progress"
        THEN [queue[i] EXCEPT !.status = "pending"]
        ELSE queue[i]]

NextPhase(type) ==
    CASE type = "plan" -> "implementation"
      [] type = "implement" -> "implementation"
      [] type = "test" -> "review"
      [] type = "review" -> "documentation"
      [] type = "document" -> "complete"
      [] OTHER -> "in_progress"

(***************************************************************************)
(* Supervisor.run(): one action per stretch between suspension points.     *)
(***************************************************************************)
IdleLocals ==
    [pc |-> "idle", resume |-> FALSE, run_id |-> NoRun, tasks |-> <<>>,
     pending_modify_tasks |-> <<>>, batch |-> <<>>, batch_index |-> 0,
     attempt |-> 0, completed_tasks |-> 0, patch_error |-> "none",
     remediation |-> FALSE, outcome |-> "none", now_epoch |-> 0,
     run_branch |-> "none"]

Running == {"init", "dispatch", "attempt", "complete", "fail", "finish", "except"}

\* the task the batch loop is at
ReadyTaskId(p) == sup[p].batch[sup[p].batch_index]

\* the run ends: the locals are dropped, the way it ended is kept
Ended(p, how) == [IdleLocals EXCEPT !.outcome = how, !.run_id = sup[p].run_id]

\* config.workflow.branch_strategy
BranchStrategies == {"in_place", "auxiliary_branches"}

\* a run() that starts afresh whatever is stored
ResumingNever(resume, existing_tasks, context) == FALSE

\* run() takes up the stored run: resume is asked for, a stored task is
\* pending or failed, and the context names a run
Resuming(resume, existing_tasks, context) ==
    /\ resume
    /\ \E i \in 1..Len(existing_tasks) :
           existing_tasks[i].status \in {"pending", "failed"}
    /\ context.current_run_id # NoRun

\* a run() that never looks at the pause
RefusesPausedNever(context, resume) == FALSE

\* run() raises "Workflow is paused" before anything else
RefusesPaused(context, resume) == context.paused /\ ~resume

\* run() up to the choice between resuming the stored run and minting a new one
RunBegin(p, resume) ==
    /\ sup[p].pc = "idle"
    /\ runs_started < MaxRuns
    /\ runs_started' = runs_started + 1
    /\ LET context == store.context
           queue == store.tasks
           existing_tasks == ExistingTasks(queue)
           resuming == Resuming(resume, existing_tasks, context)
       IN  IF RefusesPaused(context, resume) THEN
               /\ sup' = [sup EXCEPT ![p] = [IdleLocals EXCEPT !.outcome = "paused"]]
               /\ store' = store
           ELSE
             \E branch_strategy \in IF resuming \/ ~config.git_enabled
                                     THEN {"in_place"} ELSE BranchStrategies :
               \* _run_preflight records its result into the context
               /\ store' = SetJson(store, "context", [context EXCEPT !.preflight = runs_started + 1])
               /\ sup' = [sup EXCEPT ![p] =
                      [IdleLocals EXCEPT
                          !.pc = "acquire",
                          !.resume = resume,
                          !.pending_modify_tasks = LoadPendingModifyTasks(queue),
                          !.run_id = IF resuming THEN context.current_run_id
                                     ELSE runs_started + 1,
                          \* create_branch(f"architect/{run_id}") on a fresh run
                          !.run_branch =
                              IF ~resuming /\ config.git_enabled
                                 /\ branch_strategy = "auxiliary_branches"
                              THEN "architect/run_id" ELSE "current_branch",
                          !.tasks = IF resuming THEN existing_tasks
                                    ELSE <<WorkTask(PlanId, "plan", {})>>]]
    /\ UNCHANGED <<now, config, backendVars, storeVars, patchVars, fnVars>>

\* _acquire_run_lease and the run record that follows it
AcquireLease(p) ==
    /\ sup[p].pc = "acquire"
    /\ IF ~ValidNamespace("leases") THEN
           /\ store' = store
           /\ sup' = [sup EXCEPT ![p] = Ended(p, "state_error")]
       ELSE IF LeaseConflict(store, sup[p].run_id, sup[p].resume, now) THEN
           /\ store' = store
           /\ sup' = [sup EXCEPT ![p] = Ended(p, "lease_conflict")]
       ELSE
           /\ store' = UpsertRunRecord(AcquireRunLease(store, sup[p].run_id, now),
                                       sup[p].run_id, "in_progress")
           /\ sup' = [sup EXCEPT ![p].pc = "init"]
    /\ UNCHANGED <<now, config, runs_started, backendVars, storeVars, patchVars, fnVars>>

\* the top of the main loop: the ready set and the batch formed from it, or
\* the end of the loop when nothing is ready
LoopTop(locals) ==
    LET ready_tasks == ReadyTasks(locals.tasks)
    IN  IF ready_tasks = <<>> THEN
            [locals EXCEPT !.pc = "finish", !.batch = <<>>, !.batch_index = 0]
        ELSE
            [locals EXCEPT
                !.pc = "dispatch",
                !.batch = TaskIds(FormBatch(ready_tasks,
                                            Max(1, config.max_parallel_tasks),
                                            config.git_enabled)),
                !.batch_index = 1]

\* set_context(context_payload), _persist_tasks(tasks), _heartbeat_run(run_id),
\* then the first pass through the top of the main loop
InitRunState(p) ==
    /\ sup[p].pc = "init"
    /\ LET payload == [phase |-> "planning", status |-> "in_progress", paused |-> FALSE,
                       current_run_id |-> sup[p].run_id,
                       preflight |-> store.context.preflight]
           with_context == SetJson(store, "context", payload)
           with_tasks == SetJson(with_context, "tasks", sup[p].tasks)
       IN  store' = HeartbeatRun(with_tasks, sup[p].run_id, NoTask, now)
    \* run_branch has gone into the context payload and is not read again
    /\ sup' = [sup EXCEPT ![p] = LoopTop([sup[p] EXCEPT !.run_branch = "none"])]
    /\ UNCHANGED <<now, config, runs_started, backendVars, storeVars, patchVars, fnVars>>

\* the head of the batch loop: in_progress, heartbeat, context phase
Dispatch(p) ==
    /\ sup[p].pc = "dispatch"
    /\ LET task_id == ReadyTaskId(p)
           tasks == UpdateTaskStatus(sup[p].tasks, task_id, "in_progress", "none")
           persisted == SetJson(store, "tasks", tasks)
           beaten == HeartbeatRun(persisted, sup[p].run_id, task_id, now)
       IN  /\ store' = SetJson(beaten, "context",
                          [beaten.context EXCEPT
                              !.phase = TaskById(tasks, task_id).type])
           /\ sup' = [sup EXCEPT ![p].pc = "attempt", ![p].tasks = tasks,
                                 ![p].attempt = 0]
    /\ UNCHANGED <<now, config, runs_started, backendVars, storeVars, patchVars, fnVars>>

\* the metrics namespace before any gate. Of the history quality_gates the
\* model keeps the newest entry, quality_gates[-1]; a gate that did not pass
\* is by the same call the newest entry of gate_failures
NoGates == [last_gate |-> [task_id |-> NoTask, passed |-> TRUE]]

\* Supervisor._record_gate_result: the gate joins metrics.quality_gates and,
\* when it failed, metrics.gate_failures
RecordGateResult(st, task_id, passed) ==
    SetJson(st, "metrics",
            [st.metrics EXCEPT
                !.last_gate = [task_id |-> task_id, passed |-> passed]])

\* the attempt commits the working tree through create_task_patch_from_worktree
CreatesPatch(task, git_enabled) ==
    task.type \in {"implement", "document"} /\ git_enabled

\* a failed gate with attempts left may run the conflict resolution (a
\* review task with output, conflict cycles left, a coder wired), which
\* creates a remediation patch when there is a git repository
MayRemediate(task, passed, attempt, max_attempts, git_enabled) ==
    /\ ~passed
    /\ attempt < max_attempts
    /\ task.type = "review"
    /\ git_enabled

\* a loop that takes every recorded gate for a passed one
AfterGateIgnoringResult(passed, attempt, max_attempts) == "complete"

\* where the attempt loop goes once the gate is recorded: out of the loop to
\* the completion on a passed gate, round again while attempts are left,
\* out of the loop to the failure after the last one
AfterGate(passed, attempt, max_attempts) ==
    IF passed THEN "complete"
    ELSE IF attempt < max_attempts THEN "attempt"
    ELSE "fail"

\* one pass of the attempt loop: the specialist answers, the plan task expands
\* the graph, the patch is created, the gate is evaluated and recorded; a
\* failed gate with attempts left replans and may create a remediation
\* patch; an error raised by the patch manager leaves the loop for the
\* handler of run()
AttemptWith(p, StepChoices) ==
    /\ sup[p].pc = "attempt"
    /\ LET task == TaskById(sup[p].tasks, ReadyTaskId(p))
           attempt == sup[p].attempt + 1
           max_attempts == Max(1, config.task_max_attempts)
           expands == task.type = "plan" /\ Len(sup[p].tasks) = 1
       IN  \* only a plan output holds steps; the supervisor's steps are read
           \* only when the graph is expanded from an output without steps
           \E n_steps \in IF task.type = "plan" THEN StepChoices ELSE {0},
              passed \in BOOLEAN,
              guardrail \in IF CreatesPatch(task, config.git_enabled)
                            THEN BOOLEAN ELSE {FALSE},
              remediates \in BOOLEAN, remediation_guardrail \in BOOLEAN :
           \E supervisor_steps \in IF expands /\ n_steps = 0 THEN StepChoices ELSE {0} :
               LET plan_steps == IF n_steps = 0 THEN supervisor_steps ELSE n_steps
                   tasks == IF expands
                            THEN CreateTaskGraph(plan_steps, sup[p].pending_modify_tasks,
                                                 config.max_patches_before_review,
                                                 config.require_critic_approval)
                            ELSE sup[p].tasks
               IN  \* planning_gate: at least one extracted step
                   /\ (task.type = "plan" /\ n_steps = 0) => ~passed
                   /\ guardrail => ~passed
                   /\ remediates =>
                         /\ ~guardrail
                         /\ MayRemediate(task, passed, attempt, max_attempts,
                                         config.git_enabled)
                   /\ remediation_guardrail => remediates
                   /\ IF guardrail THEN
                          \* "Pre-commit guardrail failed" is raised through
                          \* the attempt loop
                          /\ store' = store
                          /\ sup' = [sup EXCEPT
                                        ![p].attempt = attempt,
                                        ![p].patch_error = "guardrail",
                                        ![p].remediation = FALSE,
                                        ![p].outcome = "state_error",
                                        ![p].pc = "except"]
                      ELSE
                          /\ store' = RecordGateResult(
                                          IF expands THEN SetJson(store, "tasks", tasks)
                                          ELSE store,
                                          task.id, passed)
                          /\ sup' = [sup EXCEPT
                                        ![p].tasks = tasks,
                                        ![p].attempt = attempt,
                                        ![p].remediation = remediates,
                                        ![p].patch_error =
                                            IF remediation_guardrail
                                            THEN "remediation_guardrail" ELSE "none",
                                        ![p].outcome =
                                            IF remediation_guardrail
                                            THEN "state_error" ELSE @,
                                        ![p].pc = IF remediation_guardrail THEN "except"
                                                  ELSE AfterGate(passed, attempt,
                                                                 max_attempts)]
    /\ UNCHANGED <<now, config, runs_started, backendVars, storeVars, patchVars, fnVars>>

Attempt(p) == AttemptWith(p, 0..MaxSteps)

\* the same with a planner (and supervisor agent) that is terse
AttemptTerse(p) == AttemptWith(p, 1..1)

\* the gate passed: the task is completed, the lease beaten, the phase advanced;
\* then the next task of the batch, or the top of the main loop again
Complete(p) ==
    /\ sup[p].pc = "complete"
    /\ LET task_id == ReadyTaskId(p)
           tasks == UpdateTaskStatus(sup[p].tasks, task_id, "completed", "none")
           persisted == SetJson(store, "tasks", tasks)
           beaten == HeartbeatRun(persisted, sup[p].run_id, NoTask, now)
           more == sup[p].batch_index < Len(sup[p].batch)
       IN  /\ store' = SetJson(beaten, "context",
                          [beaten.context EXCEPT
                              !.phase = NextPhase(TaskById(tasks, task_id).type)])
           /\ sup' = [sup EXCEPT ![p] =
                         LET done == [sup[p] EXCEPT !.tasks = tasks,
                                                    !.completed_tasks = @ + 1]
                         IN  IF more
                             THEN [done EXCEPT !.pc = "dispatch", !.batch_index = @ + 1]
                             ELSE LoopTop(done)]
    /\ UNCHANGED <<now, config, runs_started, backendVars, storeVars, patchVars, fnVars>>

\* a failure path that raises without releasing the lease
FailureWritesKeepingLease(st, tasks, run_id, task) ==
    LET persisted == SetJson(st, "tasks", tasks)
        checkpointed == UpdateJson(persisted, "checkpoints",
                            Append(persisted.checkpoints,
                                   [run_id |-> run_id, kind |-> "failed",
                                    failure_reason |-> task.failure_reason]))
        with_context == SetJson(checkpointed, "context",
                            [checkpointed.context EXCEPT
                                !.status = "failed", !.phase = task.type])
    IN  UpsertRunRecord(with_context, run_id, "failed")

\* the stored effects of a gate that failed on the last attempt
FailureWrites(st, tasks, run_id, task) ==
    LET persisted == SetJson(st, "tasks", tasks)
        checkpointed == UpdateJson(persisted, "checkpoints",
                            Append(persisted.checkpoints,
                                   [run_id |-> run_id, kind |-> "failed",
                                    failure_reason |-> task.failure_reason]))
        with_context == SetJson(checkpointed, "context",
                            [checkpointed.context EXCEPT
                                !.status = "failed", !.phase = task.type])
        recorded == UpsertRunRecord(with_context, run_id, "failed")
    IN  ReleaseRunLease(recorded, run_id, "failed")

\* the gate failed on the last attempt: run() raises "Quality gate failed"
FailTask(p) ==
    /\ sup[p].pc = "fail"
    /\ LET task_id == ReadyTaskId(p)
           tasks == UpdateTaskStatus(sup[p].tasks, task_id, "failed", "gate")
       IN  /\ store' = FailureWrites(store, tasks, sup[p].run_id, TaskById(tasks, task_id))
           /\ sup' = [sup EXCEPT ![p].tasks = tasks, ![p].pc = "except",
                                 ![p].outcome = "gate_failed"]
    /\ UNCHANGED <<now, config, runs_started, backendVars, storeVars, patchVars, fnVars>>

\* except Exception: release the lease if the context still names this run
ExceptHandler(p) ==
    /\ sup[p].pc = "except"
    /\ store' = IF store.context.current_run_id = sup[p].run_id
                THEN ReleaseRunLease(store, sup[p].run_id, "failed")
                ELSE store
    /\ sup' = [sup EXCEPT ![p] = Ended(p, sup[p].outcome)]
    /\ UNCHANGED <<now, config, runs_started, backendVars, storeVars, patchVars, fnVars>>

\* a success epilogue that leaves the context as the loop left it
SuccessWritesKeepingContext(st, run_id) ==
    LET checkpointed == UpdateJson(st, "checkpoints",
                            Append(st.checkpoints,
                                   [run_id |-> run_id, kind |-> "complete",
                                    failure_reason |-> "none"]))
        recorded == UpsertRunRecord(checkpointed, run_id, "complete")
    IN  ReleaseRunLease(recorded, run_id, "complete")

\* the stored effects of a run that completed every task
SuccessWrites(st, run_id) ==
    LET checkpointed == UpdateJson(st, "checkpoints",
                            Append(st.checkpoints,
                                   [run_id |-> run_id, kind |-> "complete",
                                    failure_reason |-> "none"]))
        with_context == SetJson(checkpointed, "context",
                            [checkpointed.context EXCEPT
                                !.phase = "complete", !.status = "complete",
                                !.paused = FALSE])
        recorded == UpsertRunRecord(with_context, run_id, "complete")
    IN  ReleaseRunLease(recorded, run_id, "complete")

\* the ready set is empty: fail on a task left over, else finish the run
Finish(p) ==
    /\ sup[p].pc = "finish"
    /\ IF \E i \in 1..Len(sup[p].tasks) : sup[p].tasks[i].status # "completed" THEN
           /\ store' = store
           /\ sup' = [sup EXCEPT ![p].pc = "except", ![p].outcome = "incomplete"]
       ELSE
           /\ store' = SuccessWrites(store, sup[p].run_id)
           /\ sup' = [sup EXCEPT ![p] = Ended(p, "summary")]
    /\ UNCHANGED <<now, config, runs_started, backendVars, storeVars, patchVars, fnVars>>

\* Supervisor.pause(), from the command line at any moment; a context
\* that has no phase yet gets the phase paused
Pause ==
    /\ ~store.context.paused
    /\ store' = SetJson(store, "context",
                    [store.context EXCEPT
                        !.paused = TRUE, !.status = "paused",
                        !.phase = IF @ = "none" THEN "paused" ELSE @])
    /\ UNCHANGED <<now, config, runs_started, sup, backendVars, storeVars, patchVars, fnVars>>

\* Supervisor.resume(), from the command line at any moment
Resume ==
    /\ store.context.paused
    /\ store' = SetJson(store, "context",
                    [store.context EXCEPT
                        !.paused = FALSE, !.status = "in_progress",
                        !.phase = IF @ = "none" THEN "implementation" ELSE @])
    /\ UNCHANGED <<now, config, runs_started, sup, backendVars, storeVars, patchVars, fnVars>>

\* time passes
Tick ==
    /\ now < MaxTime
    /\ now' = now + 1
    /\ UNCHANGED <<store, config, runs_started, sup, backendVars, storeVars, patchVars, fnVars>>

\* the workflow settings run() reads (max_patches_before_review and
\* require_critic_approval of WorkflowConfig, and the task_max_attempts and
\* max_parallel_tasks that run() reads from config.workflow), and whether the
\* patch manager has a git repository
Configs ==
    [max_parallel_tasks : 1..MaxParallel,
     task_max_attempts : 1..MaxAttempts,
     max_patches_before_review : 1..MaxChunk,
     require_critic_approval : BOOLEAN,
     git_enabled : BOOLEAN]

InitSup ==
    /\ \E n_modify \in 0..MaxModify :
        store = [context |-> DefaultContext,
                 tasks |-> [j \in 1..n_modify |-> ModifyTask(j)],
                 leases |-> [active |-> NoLease],
                 runs |-> [r \in 1..MaxRuns |-> "none"],
                 checkpoints |-> <<>>,
                 metrics |-> NoGates]
    /\ now = 0
    /\ config \in Configs
    /\ runs_started = 0
    /\ sup = [p \in Procs |-> IdleLocals]

\* one process drives run() (and runs again, fresh or resuming), every
\* configuration, no clock
NextSup ==
    \/ \E resume \in BOOLEAN : RunBegin(1, resume)
    \/ AcquireLease(1)
    \/ InitRunState(1)
    \/ Dispatch(1)
    \/ Attempt(1)
    \/ Complete(1)
    \/ FailTask(1)
    \/ ExceptHandler(1)
    \/ Finish(1)

\* the same process while the workflow is paused and resumed from outside
NextPause == NextSup \/ Pause \/ Resume

\* each process calls run() once
RunOnce(p, resume) == sup[p].outcome = "none" /\ RunBegin(p, resume)

\* the processes race for the lease while the clock runs; one configuration
LeaseConfig ==
    [max_parallel_tasks |-> 1, task_max_attempts |-> 1,
     max_patches_before_review |-> 1, require_critic_approval |-> FALSE,
     git_enabled |-> TRUE]

InitLease ==
    /\ InitSup
    /\ config = LeaseConfig
    /\ store.tasks = <<>>

NextLease ==
    \/ \E p \in Procs, resume \in BOOLEAN : RunOnce(p, resume)
    \/ \E p \in Procs : AcquireLease(p)
    \/ \E p \in Procs : InitRunState(p)
    \/ \E p \in Procs : Dispatch(p)
    \/ \E p \in Procs : AttemptTerse(p)
    \/ \E p \in Procs : Complete(p)
    \/ \E p \in Procs : FailTask(p)
    \/ \E p \in Procs : ExceptHandler(p)
    \/ \E p \in Procs : Finish(p)
    \/ Tick

(***************************************************************************)
(* The lease calls of run(), step by step (SpecHeartbeat): each call reads *)
(* the clock first and then goes through update_json, which may wait for   *)
(* the lock of the store while another process writes. Of the main loop    *)
(* only its heartbeats are kept.                                           *)
(***************************************************************************)
\* _acquire_run_lease up to update_json: now_epoch and now_iso are read
AcquireRunLeaseBegin(p) ==
    /\ sup[p].pc = "acquire"
    /\ sup' = [sup EXCEPT ![p].now_epoch = now, ![p].pc = "acquire_update"]
    /\ UNCHANGED <<store, now, config, runs_started, backendVars, storeVars, patchVars, fnVars>>

\* _acquire_run_lease from update_json on, and the run record after it
AcquireRunLeaseUpdate(p) ==
    /\ sup[p].pc = "acquire_update"
    /\ IF LeaseConflict(store, sup[p].run_id, sup[p].resume, sup[p].now_epoch) THEN
           /\ store' = store
           /\ sup' = [sup EXCEPT ![p] = Ended(p, "lease_conflict")]
       ELSE
           /\ store' = UpsertRunRecord(
                           AcquireRunLease(store, sup[p].run_id, sup[p].now_epoch),
                           sup[p].run_id, "in_progress")
           /\ sup' = [sup EXCEPT ![p].pc = "init"]
    /\ UNCHANGED <<now, config, runs_started, backendVars, storeVars, patchVars, fnVars>>

\* set_context(context_payload) and _persist_tasks(tasks); the next call is
\* _heartbeat_run
PersistRunState(p) ==
    /\ sup[p].pc = "init"
    /\ LET payload == [phase |-> "planning", status |-> "in_progress", paused |-> FALSE,
                       current_run_id |-> sup[p].run_id,
                       preflight |-> store.context.preflight]
       IN  store' = SetJson(SetJson(store, "context", payload), "tasks", sup[p].tasks)
    /\ sup' = [sup EXCEPT ![p].pc = "heartbeat", ![p].run_branch = "none"]
    /\ UNCHANGED <<now, config, runs_started, backendVars, storeVars, patchVars, fnVars>>

\* _heartbeat_run up to update_json: now_epoch and now_iso are read
HeartbeatRunBegin(p) ==
    /\ sup[p].pc = "heartbeat"
    /\ sup' = [sup EXCEPT ![p].now_epoch = now, ![p].pc = "heartbeat_update"]
    /\ UNCHANGED <<store, now, config, runs_started, backendVars, storeVars, patchVars, fnVars>>

\* _heartbeat_run from update_json on; the loop comes to its next heartbeat
HeartbeatRunUpdate(p) ==
    /\ sup[p].pc = "heartbeat_update"
    /\ store' = HeartbeatRun(store, sup[p].run_id, NoTask, sup[p].now_epoch)
    /\ sup' = [sup EXCEPT ![p].pc = "heartbeat", ![p].run_branch = "none"]
    /\ UNCHANGED <<now, config, runs_started, backendVars, storeVars, patchVars, fnVars>>

\* two invocations over one store, fresh or resuming, while the clock runs
NextHeartbeat ==
    \/ \E p \in Procs, resume \in BOOLEAN : RunOnce(p, resume)
    \/ \E p \in Procs : AcquireRunLeaseBegin(p)
    \/ \E p \in Procs : AcquireRunLeaseUpdate(p)
    \/ \E p \in Procs : PersistRunState(p)
    \/ \E p \in Procs : HeartbeatRunBegin(p)
    \/ \E p \in Procs : HeartbeatRunUpdate(p)
    \/ Tick

(***************************************************************************)
(* ResilientBackend: timeout, retry and failover around two backends.      *)
(***************************************************************************)
\* largest retry_policy.max_retries tried
MaxRetries == 2
\* chunks a backend yields before an attempt ends
MaxChunks == 2

\* the terminal error quotes the last six attempt errors
ErrorSummaryLimit == 6

CallNames == {"execute", "execute_with_tools"}
BackendNames == {"claude", "codex"}

\* attempts = [primary] + [fallback] if the names differ
BackendAttempts(primary_name, fallback_name) ==
    IF fallback_name # primary_name
    THEN <<primary_name, fallback_name>>
    ELSE <<primary_name>>

\* an inner loop that is one attempt short
AttemptsPerBackendShort(max_retries) == max_retries

\* for attempt in range(max_retries + 1)
AttemptsPerBackend(max_retries) == max_retries + 1

\* an inner loop that never breaks
BreaksOutNever(retriable) == FALSE

\* if not exc.retriable: break
BreaksOut(retriable) == ~retriable

\* a chunk list that outlives the attempt
KeptChunks(previous) == previous

\* _consume() starts from chunks = [] on every call
FreshChunks(previous) == <<>>

\* BackendExecutionError carries its flag; a timeout and any other exception
\* count as retriable
RetriableOf(error, flag) == IF error = "BackendExecutionError" THEN flag ELSE TRUE

BackendEvent(event, backend, attempt, call, retriable) ==
    [event |-> event, backend |-> backend, attempt |-> attempt,
     call |-> call, retriable |-> retriable]

\* errors[-6:]
LastErrors(errors) ==
    IF Len(errors) <= ErrorSummaryLimit THEN errors
    ELSE SubSeq(errors, Len(errors) - ErrorSummaryLimit + 1, Len(errors))

RbLocals(call_name, fallback_name, max_retries) ==
    [pc |-> "attempt", call_name |-> call_name,
     primary_name |-> "claude", fallback_name |-> fallback_name,
     max_retries |-> max_retries,
     backend_index |-> 1, attempt |-> 0,
     stream |-> <<>>,      \* what the invoked backend has yielded in this call
     chunks |-> <<>>,      \* what _consume() has collected
     errors |-> <<>>, summary |-> <<>>,
     dropped |-> 0,        \* chunks collected by attempts that then raised
     yielded |-> <<>>, result |-> "none"]

RbAttempts == BackendAttempts(rb.primary_name, rb.fallback_name)
RbBackend == RbAttempts[rb.backend_index]
Invocations == {i \in DOMAIN trace : trace[i].event = "call"}

\* top of the inner loop: the retry event, then the call of the backend
BeginAttempt ==
    /\ rb.pc = "attempt"
    /\ LET is_retry == rb.attempt > 0
           retry == BackendEvent("backend_retry", RbBackend, rb.attempt,
                                 rb.call_name, TRUE)
           invoke == BackendEvent("call", RbBackend, rb.attempt,
                                  rb.call_name, TRUE)
       IN  trace' = (IF is_retry THEN Append(trace, retry) ELSE trace)
                        \o <<invoke>>
    /\ rb' = [rb EXCEPT !.pc = "in_call", !.stream = <<>>,
                        !.chunks = FreshChunks(rb.chunks)]
    /\ UNCHANGED <<supVars, storeVars, patchVars, fnVars>>

\* async for chunk in backend.execute(...): chunks.append(chunk)
BackendYields ==
    /\ rb.pc = "in_call"
    /\ rb.call_name = "execute"
    /\ Len(rb.stream) < MaxChunks
    /\ LET chunk == <<Cardinality(Invocations), Len(rb.stream) + 1>>
       IN  rb' = [rb EXCEPT !.stream = Append(@, chunk),
                            !.chunks = Append(@, chunk)]
    /\ UNCHANGED <<trace, supVars, storeVars, patchVars, fnVars>>

\* the call returns: backend_fallback_success off the primary, and execute()
\* yields the returned chunks
AttemptReturns ==
    /\ rb.pc = "in_call"
    /\ trace' = IF RbBackend # rb.primary_name
                THEN Append(trace, BackendEvent("backend_fallback_success",
                                RbBackend, rb.attempt, rb.call_name, TRUE))
                ELSE trace
    /\ rb' = [rb EXCEPT !.pc = "done", !.result = "returned",
                        !.yielded = rb.chunks]
    /\ UNCHANGED <<supVars, storeVars, patchVars, fnVars>>

\* the call raises: backend_attempt_failed, then break, the next attempt, the
\* next backend, or the terminal BackendExecutionError
AttemptRaises ==
    /\ rb.pc = "in_call"
    /\ \E error \in {"BackendExecutionError", "TimeoutError", "Exception"},
          flag \in BOOLEAN :
        LET retriable == RetriableOf(error, flag)
            failed == BackendEvent("backend_attempt_failed", RbBackend,
                                   rb.attempt, rb.call_name, retriable)
            errors == Append(rb.errors, <<RbBackend, rb.attempt>>)
            dropped == rb.dropped + Len(rb.chunks)
            exhausted == \/ BreaksOut(retriable)
                         \/ rb.attempt + 1 >= AttemptsPerBackend(rb.max_retries)
            last == rb.backend_index >= Len(RbAttempts)
        IN  /\ (error # "BackendExecutionError" => flag)
            /\ IF ~exhausted
               THEN /\ rb' = [rb EXCEPT !.pc = "attempt", !.errors = errors, !.dropped = dropped,
                                        !.attempt = @ + 1]
                    /\ trace' = Append(trace, failed)
               ELSE IF ~last
               THEN /\ rb' = [rb EXCEPT !.pc = "attempt", !.errors = errors, !.dropped = dropped,
                                        !.attempt = 0,
                                        !.backend_index = @ + 1]
                    /\ trace' = Append(trace, failed)
               ELSE /\ rb' = [rb EXCEPT !.pc = "done", !.errors = errors, !.dropped = dropped,
                                        !.summary = LastErrors(errors),
                                        !.result = "raised"]
                    /\ trace' = trace \o <<failed,
                                  BackendEvent("raise", RbBackend, rb.attempt,
                                               rb.call_name, FALSE)>>
    /\ UNCHANGED <<supVars, storeVars, patchVars, fnVars>>

InitBackend ==
    /\ \E call_name \in CallNames, fallback_name \in BackendNames,
          max_retries \in 0..MaxRetries :
        rb = RbLocals(call_name, fallback_name, max_retries)
    /\ trace = <<>>

NextBackend ==
    \/ BeginAttempt
    \/ BackendYields
    \/ AttemptReturns
    \/ AttemptRaises

(***************************************************************************)
(* GitNotesStore: the revision envelope of one namespace, written by       *)
(* several store instances under the lock file.                            *)
(***************************************************************************)
\* set_json / update_json calls over all store instances
MaxStoreOps == 5

\* the store instances (processes) that share the state directory
Stores == {1, 2}

\* update_json: for _ in range(4)
UpdateTries == 4

\* expected_revision = None
NoRevision == 0

\* largest expected_revision a caller of set_json passes
MaxExpected == 1

\* the expected_revision of a direct set_json call: None, or a revision
ExpectedRevisions == {NoRevision} \cup 1..MaxExpected

MissingPayload == [kind |-> "missing", revision |-> 0, data |-> <<>>]
LegacyPayload(data) == [kind |-> "legacy", revision |-> 0, data |-> data]
Envelope(revision, data) ==
    [kind |-> "envelope", revision |-> revision, data |-> data]

\* a payload that is no envelope reads as revision 1; so does a revision
\* that is null or 0
NormalizeEnvelope(raw_payload, default) ==
    IF raw_payload.kind = "envelope"
    THEN Envelope(IF raw_payload.revision = 0 THEN 1 ELSE raw_payload.revision,
                  raw_payload.data)
    ELSE Envelope(1, IF raw_payload.kind = "missing" THEN default
                     ELSE raw_payload.data)

GetEnvelope(raw_payload) == NormalizeEnvelope(raw_payload, <<>>)

\* a lock file that is created even when it exists
CanCreateLockFileAlways(holder) == TRUE

\* a revision check that lets every write through
ConcurrentUpdateIgnored(expected_revision, current_revision) == FALSE

\* an envelope written with the revision it was read with
SameRevision(current_revision) == current_revision

\* "revision": current_revision + 1
NextRevision(current_revision) == current_revision + 1

\* os.open(lock_file, O_CREAT | O_EXCL | O_WRONLY) succeeds
CanCreateLockFile(holder) == holder = 0

\* expected_revision is not None and expected_revision != current_revision
ConcurrentUpdate(expected_revision, current_revision) ==
    expected_revision # NoRevision /\ expected_revision # current_revision

\* a retry loop that never gives up
TriesLeftAlways(tried) == TRUE

\* for _ in range(4): another pass of the loop follows `tried` failed ones
TriesLeft(tried) == tried < UpdateTries

IdleStore ==
    [pc |-> "idle", op |-> "none", data |-> <<>>,
     expected_revision |-> NoRevision, current_revision |-> 0,
     reads |-> 0, tried |-> 0, error |-> "none", result |-> "none"]

\* set_json(namespace, data, expected_revision): the whole document is replaced
StartSet(i, expected_revision) ==
    /\ inst[i].pc = "idle"
    /\ ops_started < MaxStoreOps
    /\ ops_started' = ops_started + 1
    /\ inst' = [inst EXCEPT ![i] = [IdleStore EXCEPT !.pc = "lock",
                    !.op = "set", !.data = <<ops_started + 1>>,
                    !.expected_revision = expected_revision]]
    /\ UNCHANGED <<disk, lock, written, supVars, backendVars, patchVars, fnVars>>

\* update_json(namespace, updater): here the updater appends one entry
StartUpdate(i) ==
    /\ inst[i].pc = "idle"
    /\ ops_started < MaxStoreOps
    /\ ops_started' = ops_started + 1
    /\ inst' = [inst EXCEPT ![i] = [IdleStore EXCEPT !.pc = "read",
                    !.op = "update", !.data = <<ops_started + 1>>]]
    /\ UNCHANGED <<disk, lock, written, supVars, backendVars, patchVars, fnVars>>

\* an updater that stores a list of the new entry alone
AddEntryToNothing(data, entry) == entry

\* the updater of add_decision / add_checkpoint: result[...].append(entry)
AddEntry(data, entry) == data \o entry

\* update_json: current = get_envelope(); updated = updater(current.data)
ReadForUpdate(i) ==
    /\ inst[i].pc = "read"
    /\ LET current == GetEnvelope(disk)
           entry == <<inst[i].data[Len(inst[i].data)]>>
       IN  inst' = [inst EXCEPT ![i].pc = "lock",
                                ![i].data = AddEntry(current.data, entry),
                                ![i].expected_revision = current.revision,
                                ![i].reads = @ + 1]
    /\ UNCHANGED <<disk, lock, ops_started, written, supVars, backendVars, patchVars, fnVars>>

\* _state_lock: the lock file is created
AcquireLock(i) ==
    /\ inst[i].pc = "lock"
    /\ CanCreateLockFile(lock)
    /\ lock' = i
    /\ inst' = [inst EXCEPT ![i].pc = "locked"]
    /\ UNCHANGED <<disk, ops_started, written, supVars, backendVars, patchVars, fnVars>>

\* _state_lock: the file still exists after timeout_seconds
LockTimeout(i) ==
    /\ inst[i].pc = "lock"
    /\ ~CanCreateLockFile(lock)
    /\ inst' = [inst EXCEPT ![i].pc = "idle", ![i].error = "lock_timeout",
                            ![i].result = "raised"]
    /\ UNCHANGED <<disk, lock, ops_started, written, supVars, backendVars, patchVars, fnVars>>

\* set_json under the lock: current = get_envelope()
ReadCurrent(i) ==
    /\ inst[i].pc = "locked"
    /\ inst' = [inst EXCEPT ![i].pc = "check",
                            ![i].current_revision = GetEnvelope(disk).revision]
    /\ UNCHANGED <<disk, lock, ops_started, written, supVars, backendVars, patchVars, fnVars>>

\* set_json under the lock: the revision check, then the write
WriteEnvelope(i) ==
    /\ inst[i].pc = "check"
    /\ IF ConcurrentUpdate(inst[i].expected_revision, inst[i].current_revision)
       THEN /\ inst' = [inst EXCEPT ![i].pc = "unlock",
                                    ![i].error = "concurrent"]
            /\ disk' = disk
            /\ written' = written
       ELSE /\ inst' = [inst EXCEPT ![i].pc = "unlock", ![i].error = "none"]
            /\ disk' = Envelope(NextRevision(inst[i].current_revision),
                                inst[i].data)
            /\ written' = written \cup {[revision |-> disk'.revision,
                                          data |-> disk'.data, writer |-> i]}
    /\ UNCHANGED <<lock, ops_started, supVars, backendVars, patchVars, fnVars>>

\* _state_lock's finally: the lock file is unlinked; then set_json returns or
\* raises, and update_json returns, retries or gives up
ReleaseLock(i) ==
    /\ inst[i].pc = "unlock"
    /\ lock' = 0
    /\ inst' = [inst EXCEPT ![i] =
            IF inst[i].error = "none"
            THEN [@ EXCEPT !.pc = "idle", !.result = "ok"]
            ELSE IF inst[i].op = "update" /\ TriesLeft(inst[i].tried + 1)
            THEN [@ EXCEPT !.pc = "read", !.tried = @ + 1]
            ELSE [@ EXCEPT !.pc = "idle", !.tried = @ + 1,
                           !.result = "raised"]]
    /\ UNCHANGED <<disk, ops_started, written, supVars, backendVars, patchVars, fnVars>>

InitStore ==
    /\ disk \in {MissingPayload, LegacyPayload(<<0>>)}
    /\ lock = 0
    /\ inst = [i \in Stores |-> IdleStore]
    /\ ops_started = 0
    /\ written = {}

NextStore ==
    \/ \E i \in Stores, expected_revision \in ExpectedRevisions :
          StartSet(i, expected_revision)
    \/ \E i \in Stores : StartUpdate(i)
    \/ \E i \in Stores : ReadForUpdate(i)
    \/ \E i \in Stores : AcquireLock(i)
    \/ \E i \in Stores : LockTimeout(i)
    \/ \E i \in Stores : ReadCurrent(i)
    \/ \E i \in Stores : WriteEnvelope(i)
    \/ \E i \in Stores : ReleaseLock(i)

\* _increment_metric, update_patch_status, _record_backend_event: the
\* writer changes its own part of the metrics document (here: adds one entry)
StartMetricsWrite(i) ==
    /\ inst[i].pc = "idle"
    /\ ops_started < MaxStoreOps
    /\ ops_started' = ops_started + 1
    /\ inst' = [inst EXCEPT ![i] = [IdleStore EXCEPT !.pc = "get",
                    !.op = "metrics", !.data = <<ops_started + 1>>]]
    /\ UNCHANGED <<disk, lock, written, supVars, backendVars, patchVars, fnVars>>

\* metrics = get_metrics(); metrics[key] = ...; then set_metrics(metrics),
\* which is set_json("metrics", metrics) without an expected revision
GetMetrics(i) ==
    /\ inst[i].pc = "get"
    /\ LET current == GetEnvelope(disk)
           entry == <<inst[i].data[Len(inst[i].data)]>>
       IN  inst' = [inst EXCEPT ![i].pc = "lock",
                                ![i].data = AddEntry(current.data, entry),
                                ![i].expected_revision = NoRevision,
                                ![i].reads = @ + 1]
    /\ UNCHANGED <<disk, lock, ops_started, written, supVars, backendVars, patchVars, fnVars>>

\* the writers of the metrics namespace, each in its own process
NextMetrics ==
    \/ \E i \in Stores : StartMetricsWrite(i)
    \/ \E i \in Stores : GetMetrics(i)
    \/ \E i \in Stores : AcquireLock(i)
    \/ \E i \in Stores : LockTimeout(i)
    \/ \E i \in Stores : ReadCurrent(i)
    \/ \E i \in Stores : WriteEnvelope(i)
    \/ \E i \in Stores : ReleaseLock(i)

\* add_decision / add_checkpoint calls of several writers over the one
\* namespace: every write goes through update_json
NextAppend ==
    \/ \E i \in Stores : StartUpdate(i)
    \/ \E i \in Stores : ReadForUpdate(i)
    \/ \E i \in Stores : AcquireLock(i)
    \/ \E i \in Stores : LockTimeout(i)
    \/ \E i \in Stores : ReadCurrent(i)
    \/ \E i \in Stores : WriteEnvelope(i)
    \/ \E i \in Stores : ReleaseLock(i)

(***************************************************************************)
(* PatchStackManager (src/architect/state/patches.py) over a repository.   *)
(* A commit hash is a sequence of characters; nine characters stand for    *)
(* the forty of a full hash, the first eight of them make the patch id.    *)
(***************************************************************************)
\* the leading characters of a commit hash that make its patch id
IdHexLen == 8
\* the digits of a legacy positional id, patch-NNN
LegacyWidth == 3

\* the commit hashes git may hand out
HashPool == << <<"0","0","0","0","0","0","0","2","f">>,
              <<"a","b","0","1","c","d","2","3","e">>,
              <<"1","2","3","4","5","6","7","8","a">>,
              <<"c","0","f","f","e","e","1","1","d">> >>
Hashes == {HashPool[i] : i \in 1..Len(HashPool)}
NoCommit == <<>>
\* the branch of the repository, and the safety branch a rollback would make
Branches == {"main", "architect/rollback-1"}
RollbackBranches == {"architect/rollback-1"}
CheckpointIds == {"architect/checkpoint-1"}
Paths == {"a.txt", ".env"}

Digits == <<"0", "1", "2", "3", "4", "5", "6", "7", "8", "9">>

\* str.isdigit(): not empty and every character a decimal digit
IsDigit(s) ==
    Len(s) > 0 /\ \A i \in 1..Len(s) : \E d \in 1..Len(Digits) : s[i] = Digits[d]

\* int(s) of a string of decimal digits
RECURSIVE ParseInt(_)
ParseInt(s) ==
    IF Len(s) = 0 THEN 0
    ELSE 10 * ParseInt(SubSeq(s, 1, Len(s) - 1))
         + (CHOOSE d \in 1..Len(Digits) : Digits[d] = s[Len(s)]) - 1

\* f"{index:0{width}d}" of an index below ten
ZeroPad(index, width) ==
    [i \in 1..width |-> IF i = width THEN Digits[index + 1] ELSE "0"]

\* str.startswith
StartsWith(s, prefix) ==
    Len(prefix) <= Len(s) /\ SubSeq(s, 1, Len(prefix)) = prefix

\* a patch id or patch reference: the string "patch-" + body when tagged,
\* the string body (hexadecimal characters, or empty) when not
PatchString(tagged, body) == [tagged |-> tagged, body |-> body]
NoId == PatchString(FALSE, <<"-">>)

\* _patch_id_for_commit: f"patch-{commit_hash[:8]}"
PatchIdForCommit(commit_hash) == PatchString(TRUE, SubSeq(commit_hash, 1, IdHexLen))

\* legacy_id = f"patch-{index:03d}"
LegacyId(index) == PatchString(TRUE, ZeroPad(index, LegacyWidth))

\* patch.commit_hash.startswith(patch_ref)
HashStartsWith(commit_hash, patch_ref) ==
    ~patch_ref.tagged /\ StartsWith(commit_hash, patch_ref.body)

\* patch.patch_id.startswith(patch_ref)
IdStartsWith(patch_id, patch_ref) ==
    IF patch_ref.tagged
    THEN patch_id.tagged /\ StartsWith(patch_id.body, patch_ref.body)
    ELSE patch_ref.body = <<>>
         \/ (~patch_id.tagged /\ StartsWith(patch_id.body, patch_ref.body))

\* the paths git tracks; the others of Paths are untracked when written
Tracked == {"a.txt"}

\* git log --reverse <h>: the commits from the root to h
RECURSIVE History(_, _)
History(g, h) ==
    IF h = NoCommit THEN <<>> ELSE Append(History(g, g.parent[h]), h)

Reachable(g, h) == {History(g, h)[i] : i \in 1..Len(History(g, h))}

\* git rev-parse HEAD
HeadCommit(g) == g.branch[g.head]

\* git log --reverse base_ref..HEAD, or of HEAD when base_ref is None
LogRange(g, base_ref) ==
    SelectSeq(History(g, HeadCommit(g)), LAMBDA h : h \notin Reachable(g, base_ref))

Patch(patch_id, commit_hash, subject, status) ==
    [patch_id |-> patch_id, commit_hash |-> commit_hash,
     subject |-> subject, status |-> status]
NoPatch == Patch(NoId, NoCommit, "none", "none")

\* the metrics namespace of a store that holds no patch
EmptyMetrics ==
    [patch_index |-> [h \in Hashes |-> NoId],
     patch_lifecycle |-> [h \in Hashes |-> "absent"],
     patch_stack |-> <<>>,
     local_patches |-> 0]

StackHashes(m) == {m.patch_stack[i].commit_hash : i \in 1..Len(m.patch_stack)}

\* list_patches up to _ensure_patch_indexes: the stored id of each commit of
\* the log, the canonical one where none is stored
ListedPatches(g, m, base_ref) ==
    LET log == LogRange(g, base_ref)
    IN  [i \in 1..Len(log) |->
            Patch(IF m.patch_index[log[i]] # NoId
                  THEN m.patch_index[log[i]]
                  ELSE PatchIdForCommit(log[i]),
                  log[i],
                  g.subject[log[i]],
                  IF m.patch_lifecycle[log[i]] = "absent"
                  THEN "pending"
                  ELSE m.patch_lifecycle[log[i]])]

\* _ensure_patch_indexes: index the listed patches the metrics do not hold
EnsurePatchIndexes(m, patches) ==
    LET listed(h) == {i \in 1..Len(patches) : patches[i].commit_hash = h}
        patch_of(h) == patches[CHOOSE i \in listed(h) : TRUE]
    IN  [patch_index |->
            [h \in Hashes |->
                IF listed(h) # {} /\ m.patch_index[h] = NoId
                THEN patch_of(h).patch_id ELSE m.patch_index[h]],
         patch_lifecycle |->
            [h \in Hashes |->
                IF listed(h) # {} /\ m.patch_lifecycle[h] = "absent"
                THEN patch_of(h).status ELSE m.patch_lifecycle[h]],
         patch_stack |->
            m.patch_stack \o
            SelectSeq([i \in 1..Len(patches) |->
                          [patch_id |-> patches[i].patch_id,
                           commit_hash |-> patches[i].commit_hash,
                           status |-> patches[i].status]],
                      LAMBDA item : item.commit_hash \notin StackHashes(m)),
         local_patches |-> m.local_patches]

\* list_patches, the backward-compatibility loop: a stored legacy id that
\* names the patch's own position in this listing gives way to the canonical
LegacyFixed(patches) ==
    [i \in 1..Len(patches) |->
        IF patches[i].patch_id = PatchIdForCommit(patches[i].commit_hash)
        THEN patches[i]
        ELSE IF patches[i].patch_id = LegacyId(i)
             THEN [patches[i] EXCEPT
                      !.patch_id = PatchIdForCommit(patches[i].commit_hash)]
             ELSE patches[i]]

\* list_patches: what the caller gets
ListPatches(g, m, base_ref) == LegacyFixed(ListedPatches(g, m, base_ref))

\* resolve_patch over a listing
ResolvePatch(patches, patch_ref) ==
    IF patch_ref.tagged /\ IsDigit(patch_ref.body) THEN
        LET patch_index == ParseInt(patch_ref.body) - 1
        IN  IF 0 <= patch_index /\ patch_index < Len(patches)
            THEN patches[patch_index + 1] ELSE NoPatch
    ELSE
        LET hits == {i \in 1..Len(patches) :
                        \/ patches[i].patch_id = patch_ref
                        \/ HashStartsWith(patches[i].commit_hash, patch_ref)
                        \/ IdStartsWith(patches[i].patch_id, patch_ref)}
        IN  IF hits = {} THEN NoPatch
            ELSE patches[CHOOSE i \in hits : \A j \in hits : i <= j]

\* record_patch
RecordPatch(m, commit_hash, status) ==
    [patch_index |-> [m.patch_index EXCEPT ![commit_hash] = PatchIdForCommit(commit_hash)],
     patch_lifecycle |-> [m.patch_lifecycle EXCEPT ![commit_hash] = status],
     patch_stack |-> Append(m.patch_stack,
                        [patch_id |-> PatchIdForCommit(commit_hash),
                         commit_hash |-> commit_hash, status |-> status]),
     local_patches |-> m.local_patches]

\* update_patch_status
UpdatePatchStatus(m, commit_hash, status) ==
    [m EXCEPT
        !.patch_lifecycle = [m.patch_lifecycle EXCEPT ![commit_hash] = status],
        !.patch_stack = [i \in 1..Len(m.patch_stack) |->
                            IF m.patch_stack[i].commit_hash = commit_hash
                            THEN [m.patch_stack[i] EXCEPT !.status = status]
                            ELSE m.patch_stack[i]]]

\* what the last call of the manager was given and what it gave back
PatchCall(op, patch_ref, base_ref, error, result, listing) ==
    [op |-> op, patch_ref |-> patch_ref, base_ref |-> base_ref,
     error |-> error, result |-> result, listing |-> listing,
     checkpoint_id |-> "none", returned |-> "none",
     staged |-> {}, max_files |-> 0, forbidden_paths |-> {}]
NoPatchCall == PatchCall("none", NoId, NoCommit, "none", NoPatch, <<>>)

\* git commit: a new commit on the checked-out branch
GitCommit(g, h, subject) ==
    [g EXCEPT !.made = @ \cup {h},
              !.parent[h] = HeadCommit(g),
              !.subject[h] = subject,
              !.branch[g.head] = h]

\* git reset --hard <h>: the checked-out branch moves to h and the tracked
\* files lose their uncommitted changes
GitResetHard(g, h) ==
    [g EXCEPT !.branch[g.head] = h, !.worktree = @ \ Tracked]

\* git rebase --onto <parent of h> <h> <branch>: the commits after h are
\* replayed as the new commits fresh[1], fresh[2], ... on the parent of h
GitRebaseOnto(g, h, fresh) ==
    LET after == LogRange(g, h)
        k == Len(after)
    IN  [g EXCEPT
            !.made = @ \cup {fresh[i] : i \in 1..k},
            !.parent = [c \in Hashes |->
                IF \E i \in 1..k : fresh[i] = c
                THEN LET i == CHOOSE i \in 1..k : fresh[i] = c
                     IN  IF i = 1 THEN g.parent[h] ELSE fresh[i - 1]
                ELSE g.parent[c]],
            !.subject = [c \in Hashes |->
                IF \E i \in 1..k : fresh[i] = c
                THEN g.subject[after[CHOOSE i \in 1..k : fresh[i] = c]]
                ELSE g.subject[c]],
            !.branch[g.head] = IF k = 0 THEN g.parent[h] ELSE fresh[k]]

\* the ways git can name the replayed commits of a rebase that drops h
FreshHashes(g, h) ==
    {fresh \in [1..Len(LogRange(g, h)) -> Hashes \ g.made] :
        \A i, j \in 1..Len(LogRange(g, h)) : i # j => fresh[i] # fresh[j]}

\* a commit made outside the manager (a specialist, the user)
OutsideCommit(h) ==
    /\ pcalls < MaxPatchCalls
    /\ pcalls' = pcalls + 1
    /\ h \in Hashes \ git.made
    /\ git' = GitCommit(git, h, "work")
    /\ pcall' = PatchCall("git_commit", NoId, NoCommit, "none", NoPatch, <<>>)
    /\ UNCHANGED <<metrics, supVars, backendVars, storeVars, fnVars>>

\* a specialist writes to the working tree
WriteFiles(paths) ==
    /\ pcalls < MaxPatchCalls
    /\ pcalls' = pcalls + 1
    /\ paths # {}
    /\ paths \cap git.worktree = {}
    /\ git' = [git EXCEPT !.worktree = @ \cup paths]
    /\ pcall' = PatchCall("write_files", NoId, NoCommit, "none", NoPatch, <<>>)
    /\ UNCHANGED <<metrics, supVars, backendVars, storeVars, fnVars>>

\* list_patches(base_ref)
ListPatchesCall(base_ref) ==
    /\ pcalls < MaxPatchCalls
    /\ pcalls' = pcalls + 1
    /\ metrics' = EnsurePatchIndexes(metrics, ListedPatches(git, metrics, base_ref))
    /\ pcall' = PatchCall("list_patches", NoId, base_ref, "none", NoPatch,
                          ListPatches(git, metrics, base_ref))
    /\ UNCHANGED <<git, supVars, backendVars, storeVars, fnVars>>

\* resolve_patch(patch_ref, base_ref)
ResolvePatchCall(patch_ref, base_ref) ==
    /\ pcalls < MaxPatchCalls
    /\ pcalls' = pcalls + 1
    /\ metrics' = EnsurePatchIndexes(metrics, ListedPatches(git, metrics, base_ref))
    /\ pcall' = PatchCall("resolve_patch", patch_ref, base_ref, "none",
                          ResolvePatch(ListPatches(git, metrics, base_ref), patch_ref),
                          <<>>)
    /\ UNCHANGED <<git, supVars, backendVars, storeVars, fnVars>>

\* reject_patch(patch_ref, base_ref)
RejectPatchCall(patch_ref, base_ref) ==
    /\ pcalls < MaxPatchCalls
    /\ pcalls' = pcalls + 1
    /\ LET listing == ListPatches(git, metrics, base_ref)
           indexed == EnsurePatchIndexes(metrics, ListedPatches(git, metrics, base_ref))
           patch == ResolvePatch(listing, patch_ref)
           called(error) == PatchCall("reject_patch", patch_ref, base_ref, error,
                                      patch, <<>>)
       IN  IF patch = NoPatch THEN
               \* Patch not found
               /\ git' = git
               /\ metrics' = indexed
               /\ pcall' = called("not_found")
           ELSE IF git.parent[patch.commit_hash] = NoCommit THEN
               \* git rev-parse <hash>^ fails on the root commit
               /\ git' = git
               /\ metrics' = indexed
               /\ pcall' = called("no_parent")
           ELSE
               \/ \* the rebase stops: abort it and reset to the previous HEAD
                  /\ \/ git.worktree \cap Tracked # {}
                     \/ LogRange(git, patch.commit_hash) # <<>>
                  /\ git' = GitResetHard(git, HeadCommit(git))
                  /\ metrics' = indexed
                  /\ pcall' = called("rebase_conflict")
               \/ \* the rebase goes through
                  /\ git.worktree \cap Tracked = {}
                  /\ \E fresh \in FreshHashes(git, patch.commit_hash) :
                        git' = GitRebaseOnto(git, patch.commit_hash, fresh)
                  /\ metrics' = UpdatePatchStatus(indexed, patch.commit_hash, "rejected")
                  /\ pcall' = called("none")
    /\ UNCHANGED <<supVars, backendVars, storeVars, fnVars>>

\* create_checkpoint: git tag -f architect/<label>-<timestamp>
CreateCheckpoint(checkpoint_id) ==
    /\ pcalls < MaxPatchCalls
    /\ pcalls' = pcalls + 1
    /\ HeadCommit(git) # NoCommit
    /\ git' = [git EXCEPT !.tags[checkpoint_id] = HeadCommit(git)]
    /\ pcall' = [PatchCall("create_checkpoint", NoId, NoCommit, "none", NoPatch, <<>>)
                    EXCEPT !.returned = checkpoint_id]
    /\ UNCHANGED <<metrics, supVars, backendVars, storeVars, fnVars>>

\* rollback(checkpoint_id): git reset --hard <checkpoint_id>; returns None
Rollback(checkpoint_id) ==
    /\ pcalls < MaxPatchCalls
    /\ pcalls' = pcalls + 1
    /\ IF git.tags[checkpoint_id] = NoCommit THEN
           \* git does not know the tag
           /\ git' = git
           /\ pcall' = [PatchCall("rollback", NoId, NoCommit, "unknown_revision",
                                  NoPatch, <<>>)
                           EXCEPT !.checkpoint_id = checkpoint_id]
       ELSE
           /\ git' = GitResetHard(git, git.tags[checkpoint_id])
           /\ pcall' = [PatchCall("rollback", NoId, NoCommit, "none", NoPatch, <<>>)
                           EXCEPT !.checkpoint_id = checkpoint_id]
    /\ UNCHANGED <<metrics, supVars, backendVars, storeVars, fnVars>>

\* the limits and patterns the guardrails may be configured with, the
\* paths a caller may exclude, and the fallback artifact modes
FileLimits == {1, 2}
ForbiddenSets == {{}, {".env"}}
ExcludeSets == {{}, {"a.txt"}}
FallbackModes == {"tracked", "local_only"}

\* a pre-commit guardrail that lets every staging through
GuardrailNeverFails(staged, max_files, forbidden_paths) == FALSE

\* the pre-commit guardrail: a staged path is forbidden, or more files are
\* staged than max_files
GuardrailFails(staged, max_files, forbidden_paths) ==
    \/ staged \cap forbidden_paths # {}
    \/ Cardinality(staged) > max_files

\* create_task_patch_from_worktree: stage the working tree but the excluded
\* paths, check the guardrails, commit and record the patch; with nothing
\* staged, commit the fallback file or record a patch that is no commit
CreateTaskPatchFromWorktree(h, max_files, forbidden_paths, exclude_paths, fallback_mode) ==
    /\ pcalls < MaxPatchCalls
    /\ pcalls' = pcalls + 1
    /\ h \in Hashes \ git.made
    /\ LET staged == git.worktree \ exclude_paths
           called(error, result) ==
               [PatchCall("create_task_patch_from_worktree", NoId, NoCommit,
                          error, result, <<>>)
                   EXCEPT !.staged = staged, !.max_files = max_files,
                          !.forbidden_paths = forbidden_paths]
           committed == Patch(PatchIdForCommit(h), h, "architect", "pending")
       IN  IF GuardrailFails(staged, max_files, forbidden_paths) THEN
               \* Pre-commit guardrail failed: the staging is undone
               /\ git' = git
               /\ metrics' = metrics
               /\ pcall' = called("guardrail", NoPatch)
           ELSE IF staged = {} /\ fallback_mode = "local_only" THEN
               /\ git' = git
               /\ metrics' = [metrics EXCEPT !.local_patches = @ + 1]
               /\ pcall' = called("none", Patch(NoId, NoCommit, "architect", "pending"))
           ELSE
               /\ git' = [GitCommit(git, h, "architect") EXCEPT !.worktree = @ \ staged]
               /\ metrics' = RecordPatch(metrics, h, "pending")
               /\ pcall' = called("none", committed)
    /\ UNCHANGED <<supVars, backendVars, storeVars, fnVars>>

\* a repository of two commits, as the tests build it, whose metrics hold
\* nothing yet, or hold the positional ids an earlier release stored
InitialGit(h1, h2) ==
    [made |-> {h1, h2},
     parent |-> [h \in Hashes |-> IF h = h2 THEN h1 ELSE NoCommit],
     subject |-> [h \in Hashes |-> "work"],
     branch |-> [b \in Branches |-> IF b = "main" THEN h2 ELSE NoCommit],
     head |-> "main",
     tags |-> [c \in CheckpointIds |-> NoCommit],
     worktree |-> {}]

LegacyMetrics(h1, h2) ==
    [patch_index |-> [h \in Hashes |->
        IF h = h1 THEN LegacyId(1) ELSE IF h = h2 THEN LegacyId(2) ELSE NoId],
     patch_lifecycle |-> [h \in Hashes |->
        IF h \in {h1, h2} THEN "pending" ELSE "absent"],
     patch_stack |-> <<[patch_id |-> LegacyId(1), commit_hash |-> h1,
                        status |-> "pending"],
                       [patch_id |-> LegacyId(2), commit_hash |-> h2,
                        status |-> "pending"]>>,
     local_patches |-> 0]

InitPatch ==
    /\ \E i \in 1..Len(HashPool) :
          LET h1 == HashPool[i]
              h2 == HashPool[(i % Len(HashPool)) + 1]
          IN  /\ git = InitialGit(h1, h2)
              /\ metrics \in {EmptyMetrics, LegacyMetrics(h1, h2)}
    /\ pcall = NoPatchCall
    /\ pcalls = 0

\* the references a caller may pass: the patch ids of the commits made,
\* legacy positional ids, the bare tag, and the leading part of HEAD's hash
PatchRefs(g) ==
    {PatchIdForCommit(h) : h \in g.made}
    \cup {LegacyId(i) : i \in 1..2}
    \cup {PatchString(TRUE, <<>>)}
    \cup {PatchString(FALSE, SubSeq(HeadCommit(g), 1, 4))}

\* the base refs a caller may pass: none, or the commit the history began with
BaseRefs(g) == {NoCommit} \cup {h \in g.made : g.parent[h] = NoCommit}

NextPatch ==
    \/ \E h \in Hashes : OutsideCommit(h)
    \/ \E paths \in SUBSET Paths : WriteFiles(paths)
    \/ \E base_ref \in BaseRefs(git) : ListPatchesCall(base_ref)
    \/ \E patch_ref \in PatchRefs(git), base_ref \in BaseRefs(git) :
          ResolvePatchCall(patch_ref, base_ref)
    \/ \E patch_ref \in PatchRefs(git), base_ref \in BaseRefs(git) :
          RejectPatchCall(patch_ref, base_ref)
    \/ \E h \in Hashes, max_files \in FileLimits, forbidden_paths \in ForbiddenSets,
          exclude_paths \in ExcludeSets, fallback_mode \in FallbackModes :
          CreateTaskPatchFromWorktree(h, max_files, forbidden_paths, exclude_paths,
                                      fallback_mode)
    \/ \E c \in CheckpointIds : CreateCheckpoint(c)
    \/ \E c \in CheckpointIds : Rollback(c)

(***************************************************************************)
(* The specifications.                                                     *)
(***************************************************************************)
(* The tool policy (SpecTools): SpecialistAgent.run and the Supervisor's   *)
(* _run_specialist, as functions of the allowed tools they are given.      *)
(***************************************************************************)
\* tools a list of allowed tools may hold
MaxTools == 2

TOOL_POLICY_ALLOWLIST == {"read_file", "write_file", "edit_file", "run_command", "search"}

\* the tool names in the order sorted() puts them in
ToolOrder ==
    <<"drop_database", "edit_file", "read_file", "run_command", "search", "write_file">>

\* the strings of a list of allowed tools: a name, the empty name among
\* them, with or without white space around it
RawTools ==
    {[name |-> "read_file", padded |-> FALSE], [name |-> "read_file", padded |-> TRUE],
     [name |-> "search", padded |-> FALSE], [name |-> "drop_database", padded |-> FALSE],
     [name |-> "", padded |-> FALSE]}

\* str(tool).strip()
Strip(tool) == tool.name

\* the string as it stands is one of the allow-list
InAllowList(tool) == ~tool.padded /\ tool.name \in TOOL_POLICY_ALLOWLIST

\* sorted(names)
Sorted(names) == SelectSeq(ToolOrder, LAMBDA name : name \in names)

\* a normalisation that lets every name through
NormalizeAllowedToolsUnchecked(allowed_tools) ==
    [error |-> "none",
     tools |-> Sorted({Strip(allowed_tools[i]) : i \in 1..Len(allowed_tools)} \ {""})]

\* SpecialistAgent._normalize_allowed_tools and Supervisor._normalize_tools,
\* which are the same code; None is returned as the empty list, which every
\* reader treats alike
NormalizeAllowedTools(allowed_tools) ==
    IF allowed_tools = <<>> THEN [error |-> "none", tools |-> <<>>]
    ELSE
        LET normalized ==
                Sorted({Strip(allowed_tools[i]) : i \in 1..Len(allowed_tools)} \ {""})
            unknown == SelectSeq(normalized, LAMBDA tool : tool \notin TOOL_POLICY_ALLOWLIST)
        IN  IF unknown # <<>> THEN [error |-> "tool_policy", tools |-> <<>>]
            ELSE [error |-> "none", tools |-> normalized]

TaskTypes == {"plan", "implement", "test", "review", "document"}

\* Supervisor._allowed_tools_for_task: the tools of the task, or the
\* defaults of its type
AllowedToolsForTask(type, allowed_tools) ==
    LET plain(name) == [name |-> name, padded |-> FALSE]
    IN  IF allowed_tools # <<>> THEN NormalizeAllowedTools(allowed_tools)
        ELSE IF type = "implement" THEN
            NormalizeAllowedTools(<<plain("read_file"), plain("write_file"),
                                    plain("edit_file"), plain("run_command"),
                                    plain("search")>>)
        ELSE IF type = "test" THEN
            NormalizeAllowedTools(<<plain("read_file"), plain("run_command")>>)
        ELSE IF type = "review" THEN
            NormalizeAllowedTools(<<plain("read_file"), plain("run_command"),
                                    plain("search")>>)
        ELSE IF type = "document" THEN
            NormalizeAllowedTools(<<plain("read_file"), plain("write_file"),
                                    plain("edit_file"), plain("search")>>)
        ELSE [error |-> "none", tools |-> <<>>]

\* the outcome of SpecialistAgent.run: the policy error, or one call of
\* backend.execute, with tools= when the normalised list is not empty
SpecialistOutcome(op, type, given, allowed_tools) ==
    LET normalized == NormalizeAllowedTools(allowed_tools)
    IN  [op |-> op, type |-> type, allowed_tools |-> given,
         error |-> normalized.error,
         backend_calls |-> IF normalized.error = "none" THEN 1 ELSE 0,
         tool_mode |-> normalized.error = "none" /\ normalized.tools # <<>>,
         tools |-> normalized.tools]

\* SpecialistAgent.run(instruction, context, allowed_tools)
SpecialistRun(allowed_tools) ==
    /\ fcall' = SpecialistOutcome("specialist_run", "none", allowed_tools, allowed_tools)
    /\ UNCHANGED <<supVars, backendVars, storeVars, patchVars>>

\* Supervisor._run_specialist(task, goal): the tools of the task are
\* normalised, then handed to the specialist, which normalises them again
RunSpecialist(type, allowed_tools) ==
    /\ LET for_task == AllowedToolsForTask(type, allowed_tools)
       IN  fcall' =
               IF for_task.error # "none" THEN
                   [op |-> "run_specialist", type |-> type,
                    allowed_tools |-> allowed_tools, error |-> for_task.error,
                    backend_calls |-> 0, tool_mode |-> FALSE, tools |-> <<>>]
               ELSE
                   SpecialistOutcome("run_specialist", type, allowed_tools,
                                     [i \in 1..Len(for_task.tools) |->
                                         [name |-> for_task.tools[i], padded |-> FALSE]])
    /\ UNCHANGED <<supVars, backendVars, storeVars, patchVars>>

\* the lists of allowed tools a caller may hand over
ToolLists == UNION {[1..n -> RawTools] : n \in 0..MaxTools}

NextTools ==
    \/ \E allowed_tools \in ToolLists : SpecialistRun(allowed_tools)
    \/ \E type \in TaskTypes, allowed_tools \in ToolLists :
           RunSpecialist(type, allowed_tools)

(***************************************************************************)
(* The testing gate (SpecCoverage): _evaluate_gate for a test task and     *)
(* _extract_coverage_percent, as functions of the result of the test       *)
(* command. The outputs hold no JSON line, so that the pattern decides.    *)
(***************************************************************************)
\* characters of the output tail of a test command
MaxOutput == 5

\* the characters an output is made of: digits, the per cent sign, a blank,
\* and x for a letter
OutputChars == {"7", "2", "%", " ", "x"}

\* test_coverage_threshold
Thresholds == {0, 25, 80}

\* coverage_percent is None
NoCoverage == 0 - 1

\* a character that \w matches
IsWordChar(c) == IsDigit(<<c>>) \/ c = "x"

\* \b before position i of the text (i = Len(text) + 1: at its end)
WordBoundary(text, i) ==
    LET word(j) == j \in 1..Len(text) /\ IsWordChar(text[j])
    IN  word(i - 1) # word(i)

\* COVERAGE_PATTERN = \b(\d{1,3})%\b matches k digits at position i
Matches(text, i, k) ==
    /\ i + k <= Len(text)
    /\ WordBoundary(text, i)
    /\ IsDigit(SubSeq(text, i, i + k - 1))
    /\ text[i + k] = "%"
    /\ WordBoundary(text, i + k + 1)

\* Supervisor._extract_coverage_percent: output = stdout_tail, a newline,
\* stderr_tail (here empty); the largest match, clamped
ExtractCoveragePercent(stdout_tail) ==
    LET output == Append(stdout_tail, "\n")
        matches == {ParseInt(SubSeq(output, i, i + k - 1)) :
                       <<i, k>> \in {m \in (1..Len(output)) \X (1..3) :
                                        Matches(output, m[1], m[2])}}
    IN  IF matches = {} THEN NoCoverage
        ELSE Min(100, Max(0, CHOOSE p \in matches : \A q \in matches : q <= p))

\* the results a test command may have, and the settings of the gate
TestResults ==
    [op : {"test_result"}, auto_test : BOOLEAN, threshold : Thresholds,
     exit_code : {0, 1},
     stdout_tail : UNION {[1..n -> OutputChars] : n \in 0..MaxOutput},
     passed : {TRUE}, reason : {"none"}, actual : {NoCoverage}]

\* Supervisor._evaluate_gate for a task of type test: the exit code, then
\* the coverage against the threshold
EvaluateTestingGate ==
    /\ fcall.op = "test_result"
    /\ LET ran == fcall.auto_test
           failed == ran /\ fcall.exit_code # 0
           measured == ran /\ ~failed /\ fcall.threshold > 0
           coverage_percent == IF measured THEN ExtractCoveragePercent(fcall.stdout_tail)
                               ELSE NoCoverage
           short == measured /\ (coverage_percent = NoCoverage
                                   \/ coverage_percent < fcall.threshold)
       IN  fcall' = [fcall EXCEPT
                        !.op = "testing_gate",
                        !.passed = ~failed /\ ~short,
                        !.reason = IF failed THEN "Test command failed."
                                   ELSE IF short THEN "Coverage threshold failed"
                                   ELSE "none",
                        !.actual = coverage_percent]
    /\ UNCHANGED <<supVars, backendVars, storeVars, patchVars>>

(***************************************************************************)
\* the dispatcher and the store files at rest
BackendAtRest == rb = RbLocals("execute", "claude", 0) /\ trace = <<>>
StoreAtRest ==
    /\ disk = MissingPayload
    /\ lock = 0
    /\ inst = [i \in Stores |-> IdleStore]
    /\ ops_started = 0
    /\ written = {}

PatchAtRest ==
    /\ git = InitialGit(HashPool[1], HashPool[2])
    /\ metrics = EmptyMetrics
    /\ pcall = NoPatchCall
    /\ pcalls = 0

\* no function called yet
NoCall == [op |-> "none"]
FunctionsAtRest == fcall = NoCall

Init == InitSup /\ BackendAtRest /\ StoreAtRest /\ PatchAtRest /\ FunctionsAtRest
Next == NextSup
Spec == Init /\ [][Next]_vars

InitLeaseRace == InitLease /\ BackendAtRest /\ StoreAtRest /\ PatchAtRest /\ FunctionsAtRest
SpecLease == InitLeaseRace /\ [][NextLease]_vars

\* run() once entered goes on: every specialist call, command and VCS
\* operation it awaits returns
RunStep ==
    \/ AcquireLease(1) \/ InitRunState(1) \/ Dispatch(1) \/ AttemptTerse(1)
    \/ Complete(1) \/ FailTask(1) \/ ExceptHandler(1) \/ Finish(1)

\* the settings tried for termination: two attempts a task, one patch a
\* chunk, with and without batches, the critic and git
TerminationConfigs ==
    [max_parallel_tasks : {1, 2}, task_max_attempts : {2},
     max_patches_before_review : {1}, require_critic_approval : BOOLEAN,
     git_enabled : BOOLEAN]

InitTermination == Init /\ config \in TerminationConfigs

\* run after run, fresh or resuming, a planner that is terse
NextTermination == (\E resume \in BOOLEAN : RunBegin(1, resume)) \/ RunStep

SpecTermination == InitTermination /\ [][NextTermination]_vars /\ WF_vars(RunStep)

\* run() from the lease to the call of the supervisor agent: the run state
\* is persisted as in InitRunState, the decomposition is awaited next
PersistBeforeDecomposition(p) ==
    /\ sup[p].pc = "init"
    /\ LET payload == [phase |-> "planning", status |-> "in_progress", paused |-> FALSE,
                       current_run_id |-> sup[p].run_id,
                       preflight |-> store.context.preflight]
           with_context == SetJson(store, "context", payload)
           with_tasks == SetJson(with_context, "tasks", sup[p].tasks)
       IN  store' = HeartbeatRun(with_tasks, sup[p].run_id, NoTask, now)
    /\ sup' = [sup EXCEPT ![p].pc = "decompose", ![p].run_branch = "none"]
    /\ UNCHANGED <<now, config, runs_started, backendVars, storeVars, patchVars, fnVars>>

\* supervisor_steps = await _run_supervisor_decomposition(goal), the last
\* statement before the try block: it returns, or the agent's backend
\* raises and run() is left at once
SupervisorDecomposition(p) ==
    /\ sup[p].pc = "decompose"
    /\ \E raises \in BOOLEAN :
          sup' = [sup EXCEPT ![p] = IF raises THEN Ended(p, "decomposition_error")
                                    ELSE LoopTop(sup[p])]
    /\ UNCHANGED <<store, now, config, runs_started, backendVars, storeVars, patchVars, fnVars>>

\* _run_specialist raises inside the try block: the handler of run() is next
SpecialistRaises(p) ==
    /\ sup[p].pc = "attempt"
    /\ sup' = [sup EXCEPT ![p].pc = "except", ![p].outcome = "specialist_error"]
    /\ UNCHANGED <<store, now, config, runs_started, backendVars, storeVars, patchVars, fnVars>>

NextRelease ==
    \/ \E resume \in BOOLEAN : RunBegin(1, resume)
    \/ AcquireLease(1)
    \/ PersistBeforeDecomposition(1)
    \/ SupervisorDecomposition(1)
    \/ Dispatch(1)
    \/ AttemptTerse(1)
    \/ SpecialistRaises(1)
    \/ Complete(1)
    \/ FailTask(1)
    \/ ExceptHandler(1)
    \/ Finish(1)

SpecRelease == InitTermination /\ [][NextRelease]_vars

InitBackendCall == InitLease /\ InitBackend /\ StoreAtRest /\ PatchAtRest /\ FunctionsAtRest
SpecBackend == InitBackendCall /\ [][NextBackend]_vars

InitStoreOps == InitLease /\ BackendAtRest /\ InitStore /\ PatchAtRest /\ FunctionsAtRest
SpecStore == InitStoreOps /\ [][NextStore]_vars

InitPatchStack == InitLease /\ BackendAtRest /\ StoreAtRest /\ InitPatch /\ FunctionsAtRest
SpecPatch == InitPatchStack /\ [][NextPatch]_vars

SpecHeartbeat == InitLeaseRace /\ [][NextHeartbeat]_vars

SpecPause == InitLeaseRace /\ [][NextPause]_vars

SpecTools == InitLeaseRace /\ [][NextTools]_vars

SpecAppend == InitStoreOps /\ [][NextAppend]_vars

SpecMetrics == InitStoreOps /\ [][NextMetrics]_vars

InitCoverage ==
    InitLease /\ BackendAtRest /\ StoreAtRest /\ PatchAtRest /\ fcall \in TestResults
SpecCoverage == InitCoverage /\ [][EvaluateTestingGate]_vars

(***************************************************************************)
(* The task graph (SpecGraph): _create_task_graph over plans of up to      *)
(* MaxGraphSteps steps, up to MaxGraphModify pending modify tasks and      *)
(* every chunk size up to MaxChunkSize, with and without the critic.       *)
(***************************************************************************)
MaxGraphSteps == 4
MaxGraphModify == 2
MaxChunkSize == 3

\* the pending modify tasks a run finds: _load_pending_modify_tasks over the
\* queue that n_modify modify commands left
PendingModifyTasks(n_modify) ==
    LoadPendingModifyTasks([j \in 1..n_modify |-> ModifyTask(j)])

\* the plan task's output parsed and the workflow settings in force
PlanResults ==
    [op : {"plan_result"}, n_steps : 0..MaxGraphSteps, n_modify : 0..MaxGraphModify,
     max_patches_before_review : 0..MaxChunkSize, critic : BOOLEAN,
     tasks : {<<>>}]

\* run(): the graph built once the plan task has passed its gate
BuildTaskGraph ==
    /\ fcall.op = "plan_result"
    /\ fcall' = [fcall EXCEPT
                    !.op = "task_graph",
                    !.tasks = CreateTaskGraph(fcall.n_steps,
                                              PendingModifyTasks(fcall.n_modify),
                                              fcall.max_patches_before_review,
                                              fcall.critic)]
    /\ UNCHANGED <<supVars, backendVars, storeVars, patchVars>>

InitGraph ==
    InitLease /\ BackendAtRest /\ StoreAtRest /\ PatchAtRest /\ fcall \in PlanResults

SpecGraph == InitGraph /\ [][BuildTaskGraph]_vars

(***************************************************************************)
(* The attempt loop (SpecAttempts): the for loop of run() over one         *)
(* dispatched task, with the metrics it counts and the calls it makes in   *)
(* order.  A gate that fails with attempts left is one step, the replan    *)
(* that follows is the next.                                               *)
(***************************************************************************)
MaxLoopAttempts == 3
MaxConflictCycles == 1
\* tasks one run dispatches one after the other
MaxLoopTasks == 2

\* run(): max_attempts with a range that does not stop at the setting
MaxAttemptsOfByOne(task_max_attempts) == Max(1, task_max_attempts) + 1
\* run(): max_attempts = max(1, int(workflow.task_max_attempts))
MaxAttemptsOf(task_max_attempts) == Max(1, task_max_attempts)

\* run(): max_conflict_cycles with one cycle more than the setting
MaxConflictCyclesOfByOne(max_conflict_cycles) == Max(0, max_conflict_cycles) + 1
\* run(): max_conflict_cycles = max(0, int(workflow.max_conflict_cycles))
MaxConflictCyclesOf(max_conflict_cycles) == Max(0, max_conflict_cycles)

\* the first task of a run just dispatched: the settings read at the start
\* of run(), no conflict cycle used, nothing done yet
AttemptLoops ==
    {l \in [op : {"attempt_loop"}, pc : {"attempt"}, type : TaskTypes,
            task_max_attempts : 0..MaxLoopAttempts,
            max_conflict_cycles : (0 - 1)..MaxConflictCycles,
            retry_backoff : {0, 1},
            conflict_cycles : {0}, dispatched : {1},
            attempt : {0}, output : {"none"}, status : {"in_progress"},
            task_retry_count : {0}, replan_count : {0}, calls : {<<>>},
            \* the implement tasks of the queue (none: the plan task alone),
            \* the steps of the newest plan output, the graphs built
            implement_tasks : {0, 1}, plan_steps : {0}, expansions : {0}] :
        \* a fresh run starts at the plan task alone, a resumed run at a
        \* task of the graph
        (l.type = "plan") = (l.implement_tasks = 0)}

\* the implement tasks of the graph built from a plan output
ImplementTasksOf(n_steps, supervisor_steps) ==
    LET plan_steps == IF n_steps = 0 THEN supervisor_steps ELSE n_steps
        tasks == CreateTaskGraph(plan_steps, <<>>, 1, FALSE)
    IN  Cardinality({i \in 1..Len(tasks) : tasks[i].type = "implement"})

\* one iteration up to _record_gate_result: the backoff of a retry, the
\* specialist, the gate
LoopAttempt ==
    /\ fcall.op = "attempt_loop" /\ fcall.pc = "attempt"
    /\ LET attempt == fcall.attempt + 1
           max_attempts == MaxAttemptsOf(fcall.task_max_attempts)
           retried == attempt > 1 /\ fcall.retry_backoff > 0
           \* if ready_task.type == "plan" and len(tasks) == 1
           expands == fcall.type = "plan" /\ fcall.implement_tasks = 0
       IN  \E passed \in BOOLEAN, output \in {"empty", "text"},
              n_steps \in IF fcall.type = "plan" THEN 0..MaxSteps ELSE {0},
              supervisor_steps \in IF expands THEN 0..MaxSteps ELSE {0} :
               LET after == AfterGate(passed, attempt, max_attempts)
               IN  \* steps are read from a plan output that has text; the
                   \* planning gate asks for at least one
                   /\ n_steps > 0 => output = "text"
                   /\ (fcall.type = "plan" /\ n_steps = 0) => ~passed
                   /\ (supervisor_steps > 0) => n_steps = 0
                   /\ fcall' = [fcall EXCEPT
                       !.attempt = attempt,
                       !.output = output,
                       !.plan_steps = n_steps,
                       !.implement_tasks =
                           IF expands THEN ImplementTasksOf(n_steps, supervisor_steps)
                           ELSE @,
                       !.expansions = IF expands THEN @ + 1 ELSE @,
                       !.task_retry_count = IF retried THEN @ + 1 ELSE @,
                       !.calls = @ \o (IF retried THEN <<"sleep">> ELSE <<>>)
                                   \o <<"run_specialist",
                                        IF passed THEN "gate_passed" ELSE "gate_failed">>,
                       !.pc = IF after = "attempt" THEN "replan" ELSE after]
    /\ UNCHANGED <<supVars, backendVars, storeVars, patchVars>>

\* the rest of an iteration whose gate failed with attempts left: the
\* replan, its count, and for a review with output a conflict cycle
LoopReplan ==
    /\ fcall.op = "attempt_loop" /\ fcall.pc = "replan"
    /\ LET resolves == /\ fcall.type = "review"
                       /\ fcall.output = "text"
                       /\ fcall.conflict_cycles <
                             MaxConflictCyclesOf(fcall.max_conflict_cycles)
       IN  fcall' = [fcall EXCEPT
               !.replan_count = @ + 1,
               !.conflict_cycles = IF resolves THEN @ + 1 ELSE @,
               !.calls = @ \o <<"run_replan", "increment_replan_count">>
                           \o (IF resolves THEN <<"run_conflict_resolution">> ELSE <<>>),
               !.pc = "attempt"]
    /\ UNCHANGED <<supVars, backendVars, storeVars, patchVars>>

\* after the loop, the last gate failed: the task is marked failed and the
\* run raises
LoopFail ==
    /\ fcall.op = "attempt_loop" /\ fcall.pc = "fail"
    /\ fcall' = [fcall EXCEPT !.status = "failed",
                              !.calls = Append(@, "mark_failed"),
                              !.pc = "raised"]
    /\ UNCHANGED <<supVars, backendVars, storeVars, patchVars>>

\* after the loop, the last gate passed: the task is marked completed
LoopComplete ==
    /\ fcall.op = "attempt_loop" /\ fcall.pc = "complete"
    /\ fcall' = [fcall EXCEPT !.status = "completed",
                              !.calls = Append(@, "mark_completed"),
                              !.pc = "next_task"]
    /\ UNCHANGED <<supVars, backendVars, storeVars, patchVars>>

\* the next task of the batch loop is marked in_progress; the counters of
\* the run go on, the calls are those made for the task at hand
LoopNextTask ==
    /\ fcall.op = "attempt_loop" /\ fcall.pc = "next_task"
    /\ fcall.dispatched < MaxLoopTasks
    /\ \E type \in TaskTypes \ {"plan"} :
          fcall' = [fcall EXCEPT !.type = type, !.dispatched = @ + 1,
                                 !.attempt = 0, !.output = "none",
                                 !.status = "in_progress", !.calls = <<>>,
                                 !.pc = "attempt"]
    /\ UNCHANGED <<supVars, backendVars, storeVars, patchVars>>

NextAttempts ==
    LoopAttempt \/ LoopReplan \/ LoopFail \/ LoopComplete \/ LoopNextTask

InitAttempts ==
    InitLease /\ BackendAtRest /\ StoreAtRest /\ PatchAtRest /\ fcall \in AttemptLoops

SpecAttempts == InitAttempts /\ [][NextAttempts]_vars

(***************************************************************************)
(* The stdout loop of a backend (SpecStream).  A text is a sequence of     *)
(* characters of the alphabet below; json.loads is modelled over the JSON  *)
(* texts this alphabet can spell: objects whose members are the key        *)
(* "content" with a string, arrays, strings.                               *)
(*   {  }  [  ]  ,   themselves                                            *)
(*   k               the key and colon  "content":                         *)
(*   q               the double quote that opens or closes a string        *)
(*   a               a letter of a content                                 *)
(*   x               a letter of a line that is no JSON                    *)
(***************************************************************************)
MaxLines == 3

\* the structure of a text: every string literal becomes s, an unterminated
\* string becomes !
RECURSIVE Collapse(_, _, _, _)
Collapse(text, i, in_string, acc) ==
    IF i > Len(text) THEN (IF in_string THEN Append(acc, "!") ELSE acc)
    ELSE IF text[i] = "q" THEN
        IF in_string THEN Collapse(text, i + 1, FALSE, Append(acc, "s"))
        ELSE Collapse(text, i + 1, TRUE, acc)
    ELSE IF in_string THEN Collapse(text, i + 1, TRUE, acc)
    ELSE Collapse(text, i + 1, FALSE, Append(acc, text[i]))

\* the contents of the string literals of a text, in order
RECURSIVE StringsOf(_, _, _, _, _)
StringsOf(text, i, in_string, current, acc) ==
    IF i > Len(text) THEN acc
    ELSE IF text[i] = "q" THEN
        IF in_string THEN StringsOf(text, i + 1, FALSE, <<>>, Append(acc, current))
        ELSE StringsOf(text, i + 1, TRUE, <<>>, acc)
    ELSE IF in_string THEN StringsOf(text, i + 1, TRUE, Append(current, text[i]), acc)
    ELSE StringsOf(text, i + 1, FALSE, current, acc)

RECURSIVE IsMembers(_)
IsMembers(t) ==
    /\ Len(t) >= 2 /\ t[1] = "k" /\ t[2] = "s"
    /\ \/ Len(t) = 2
       \/ Len(t) >= 4 /\ t[3] = "," /\ IsMembers(SubSeq(t, 4, Len(t)))

IsObject(t) ==
    /\ Len(t) >= 2 /\ t[1] = "{" /\ t[Len(t)] = "}"
    /\ (Len(t) = 2 \/ IsMembers(SubSeq(t, 2, Len(t) - 1)))

RECURSIVE IsValue(_)
RECURSIVE IsElements(_)
IsElements(t) ==
    \/ IsValue(t)
    \/ \E i \in 2..(Len(t) - 1) :
          /\ t[i] = ","
          /\ IsValue(SubSeq(t, 1, i - 1))
          /\ IsElements(SubSeq(t, i + 1, Len(t)))

IsValue(t) ==
    \/ t = <<"s">>
    \/ IsObject(t)
    \/ /\ Len(t) >= 2 /\ t[1] = "[" /\ t[Len(t)] = "]"
       /\ (Len(t) = 2 \/ IsElements(SubSeq(t, 2, Len(t) - 1)))

\* json.loads(candidate): a dict, a value of another type, or JSONDecodeError
JsonLoads(candidate) ==
    LET t == Collapse(candidate, 1, FALSE, <<>>)
    IN  IF IsObject(t) THEN "dict"
        ELSE IF IsValue(t) THEN "other"
        ELSE "JSONDecodeError"

\* _extract_content of a dict: the string under "content" (the last member
\* of a key wins), or nothing
ExtractContent(candidate) ==
    LET strings == StringsOf(candidate, 1, FALSE, <<>>, <<>>)
    IN  IF strings = <<>> THEN <<>> ELSE strings[Len(strings)]

\* raw.count(ch)
RawCount(raw, ch) == Cardinality({i \in 1..Len(raw) : raw[i] = ch})

\* _appears_partial_json
AppearsPartialJson(raw) ==
    RawCount(raw, "{") > RawCount(raw, "}") \/ RawCount(raw, "[") > RawCount(raw, "]")

\* the stripped lines a subprocess may print: an event with content, an
\* event without, a record in two halves, a first half whose content holds
\* a closing brace, a blank line, a log word, a log line that opens a
\* bracket, an array
StdoutLines ==
    {<<"{", "k", "q", "a", "q", "}">>,
     <<"{", "}">>,
     <<"{", "k", "q", "a", "q", ",">>,
     <<"k", "q", "a", "q", "}">>,
     <<"{", "k", "q", "}", "q", ",">>,
     <<>>,
     <<"x">>,
     <<"[", "x">>,
     <<"[", "]">>}

Backends == {"codex", "claude"}

\* execute() with the subprocess started and its stdout not yet read
Streams ==
    [op : {"stream"}, backend : Backends,
     lines : UNION {[1..n -> StdoutLines] : n \in 1..MaxLines},
     next : {1}, parse_buffer : {<<>>}, yielded : {<<>>}, emitted : {<<>>},
     pc : {"reading"}]

\* one turn of "async for raw_line in process.stdout"
ReadStdoutLine ==
    /\ fcall.op = "stream" /\ fcall.pc = "reading"
    /\ fcall.next <= Len(fcall.lines)
    /\ LET line == fcall.lines[fcall.next]
           candidate == fcall.parse_buffer \o line
           loaded == JsonLoads(candidate)
           content == ExtractContent(candidate)
           codex == fcall.backend = "codex"
           read == [fcall EXCEPT !.next = @ + 1]
       IN  fcall' =
             IF line = <<>> THEN read
             ELSE IF loaded = "dict" THEN
                 [read EXCEPT
                     !.parse_buffer = <<>>,
                     !.emitted = IF codex THEN Append(@, "codex_json_event") ELSE @,
                     !.yielded = IF content # <<>> THEN Append(@, content) ELSE @]
             ELSE IF loaded = "other" THEN
                 \* event.get of a list or a string: AttributeError
                 [read EXCEPT !.parse_buffer = <<>>, !.pc = "raised"]
             ELSE IF AppearsPartialJson(candidate) THEN
                 [read EXCEPT
                     !.parse_buffer = candidate,
                     !.emitted = IF codex THEN Append(@, "codex_json_partial") ELSE @]
             ELSE
                 [read EXCEPT
                     !.parse_buffer = <<>>,
                     !.emitted = IF codex THEN Append(@, "codex_json_parse_fallback")
                                 ELSE @,
                     !.yielded = IF codex THEN @ ELSE Append(@, line)]
    /\ UNCHANGED <<supVars, backendVars, storeVars, patchVars>>

\* stdout is at its end: what is left in the buffer
EndOfStdout ==
    /\ fcall.op = "stream" /\ fcall.pc = "reading"
    /\ fcall.next > Len(fcall.lines)
    /\ LET codex == fcall.backend = "codex"
           left == fcall.parse_buffer # <<>>
       IN  fcall' = [fcall EXCEPT
               !.emitted = IF codex /\ left THEN Append(@, "codex_json_buffer_flush")
                           ELSE @,
               !.yielded = IF ~codex /\ left THEN Append(@, fcall.parse_buffer) ELSE @,
               !.pc = "wait"]
    /\ UNCHANGED <<supVars, backendVars, storeVars, patchVars>>

NextStream == ReadStdoutLine \/ EndOfStdout

InitStream ==
    InitLease /\ BackendAtRest /\ StoreAtRest /\ PatchAtRest /\ fcall \in Streams

SpecStream == InitStream /\ [][NextStream]_vars

(***************************************************************************)
(* Properties of the scheduler (Spec).                                     *)
(***************************************************************************)
\* the tasks of `after` that are in_progress though no task of their id was
\* in_progress in `before`
Started(before, after) ==
    {i \in 1..Len(after) :
        /\ after[i].status = "in_progress"
        /\ ~\E j \in 1..Len(before) :
              before[j].id = after[i].id /\ before[j].status = "in_progress"}

StartedWithDeps(before, after) ==
    \A i \in Started(before, after) :
        \A dep_id \in after[i].depends_on :
            \E j \in 1..Len(after) :
                after[j].id = dep_id /\ after[j].status = "completed"

LiveLeaseOfAnother(run_id) ==
    /\ store.leases.active.run_id \notin {NoRun, run_id}
    /\ store.leases.active.expires_epoch > now

Displaced(p) ==
    /\ sup[p].pc \in Running
    /\ \A q \in Procs : ~sup[q].resume
    /\ LiveLeaseOfAnother(sup[p].run_id)

EventsOf(event, backend) ==
    {i \in DOMAIN trace : trace[i].event = event /\ trace[i].backend = backend}

\* the dispatcher is through with the primary, which failed retriably each time
PrimaryFailedRetriably ==
    /\ rb.backend_index > 1 \/ rb.result = "raised"
    /\ \A i \in EventsOf("backend_attempt_failed", rb.primary_name) :
          trace[i].retriable

\* C6: when every attempt on the primary fails with a retriable error and
\* max_retries is R, the hook gets exactly R backend_retry events for the
\* primary, each before any backend_fallback_success and before the terminal
\* error, and the primary is invoked exactly R + 1 times.
C6_RetriesOfPrimary ==
    PrimaryFailedRetriably =>
        /\ Cardinality(EventsOf("backend_retry", rb.primary_name)) = rb.max_retries
        /\ Cardinality(EventsOf("call", rb.primary_name)) = rb.max_retries + 1
        /\ \A i \in EventsOf("backend_retry", rb.primary_name) :
              \A j \in DOMAIN trace :
                  trace[j].event \in {"backend_fallback_success", "raise"} => i < j

\* two retries of the primary, then the fallback answered
C6_Witness ==
    /\ PrimaryFailedRetriably
    /\ rb.max_retries = 2
    /\ rb.result = "returned"

NonRetriableFailures ==
    {i \in DOMAIN trace :
        trace[i].event = "backend_attempt_failed" /\ ~trace[i].retriable}

\* C7: after an attempt has failed with a non-retriable error, the backend is
\* not invoked again and gets no backend_retry event; the dispatcher goes
\* straight to the first attempt of the fallback, or raises the terminal
\* error when there is no further backend.
C7_NonRetriableStopsBackend ==
    \A i \in NonRetriableFailures :
        LET backend == trace[i].backend
        IN  /\ \A j \in DOMAIN trace :
                  (j > i /\ trace[j].event \in {"call", "backend_retry"}) =>
                      trace[j].backend # backend
            /\ IF backend = rb.primary_name /\ rb.fallback_name # rb.primary_name
               THEN IF i = Len(trace)
                    THEN /\ rb.pc = "attempt"
                         /\ rb.backend_index = 2
                         /\ rb.attempt = 0
                    ELSE /\ trace[i + 1].event = "call"
                         /\ trace[i + 1].backend = rb.fallback_name
                         /\ trace[i + 1].attempt = 0
               ELSE /\ rb.result = "raised"
                    /\ i + 1 = Len(trace)
                    /\ trace[i + 1].event = "raise"

\* the first attempt on the primary failed for good with two retries allowed,
\* and the fallback answered
C7_Witness ==
    /\ rb.max_retries = 2
    /\ rb.result = "returned"
    /\ \E i \in NonRetriableFailures :
          trace[i].backend = rb.primary_name /\ trace[i].attempt = 0

\* C8: execute() yields exactly the chunks, in order, that the backend
\* yielded in the one attempt that succeeded, and yields nothing when no
\* attempt succeeded.
C8_ChunksOfSuccessfulAttempt ==
    IF rb.result = "returned"
    THEN /\ rb.yielded = rb.stream
         /\ \A k \in DOMAIN rb.yielded :
               rb.yielded[k] = <<Cardinality(Invocations), k>>
    ELSE rb.yielded = <<>>

\* an attempt that had yielded chunks raised, and a later one returned two
C8_Witness ==
    /\ rb.result = "returned"
    /\ rb.dropped > 0
    /\ Len(rb.yielded) = 2

\* C9: the first attempt of the fallback is preceded by a
\* backend_failover_start event.
C9_FailoverStartBeforeFallback ==
    \A i \in DOMAIN trace :
        (/\ trace[i].event = "call"
         /\ trace[i].backend # rb.primary_name
         /\ trace[i].attempt = 0) =>
            \E j \in 1..(i - 1) : trace[j].event = "backend_failover_start"

(***************************************************************************)
(* Properties of the revision envelope (SpecStore).                        *)
(***************************************************************************)
\* C10: every write of set_json or update_json stores an envelope whose
\* revision is the revision stored before plus one, so the stored revision
\* of the namespace only grows and never repeats.
C10_RevisionGrowsByOne ==
    [][disk' # disk =>
          /\ disk'.kind = "envelope"
          /\ disk'.revision = GetEnvelope(disk).revision + 1]_vars

\* the fourth revision is stored and an update got through on a retry
C10_Witness ==
    /\ disk.kind = "envelope"
    /\ disk.revision = 4
    /\ \E i \in Stores :
          inst[i].op = "update" /\ inst[i].tried > 0 /\ inst[i].result = "ok"

\* the store instance is between creating and unlinking the lock file
InLockedSection(i) == inst[i].pc \in {"locked", "check", "unlock"}

\* C11: under every interleaving of the steps of the store instances, at most
\* one instance is inside the locked read-compare-write section, and no two
\* writes that went through stored the same revision with different data.
C11_OneWriterPerRevision ==
    /\ Cardinality({i \in Stores : InLockedSection(i)}) <= 1
    /\ \A a \in written : \A b \in written :
          a.revision = b.revision => a.data = b.data

\* both instances have written, and one waits for the lock the other holds
C11_Witness ==
    /\ \E a \in written : \E b \in written : a.writer # b.writer
    /\ \E i \in Stores : \E j \in Stores :
          InLockedSection(i) /\ inst[j].pc = "lock"

\* the expected revision of the instance differs from the stored one
RevisionMismatch(i) ==
    /\ inst[i].expected_revision # NoRevision
    /\ inst[i].expected_revision # GetEnvelope(disk).revision

\* C12: a set_json whose expected_revision differs from the stored revision
\* fails with the concurrent-update error, leaves the stored payload as it
\* was, and unlinks the lock file on its way out.
C12_MismatchFailsAndUnlocks ==
    [][\A i \in Stores :
          /\ (inst[i].pc = "check" /\ RevisionMismatch(i) /\ inst'[i] # inst[i]) =>
                /\ disk' = disk
                /\ inst'[i].pc = "unlock"
                /\ inst'[i].error = "concurrent"
          /\ (/\ inst[i].pc = "unlock"
              /\ inst[i].error = "concurrent"
              /\ inst'[i] # inst[i]) =>
                /\ disk' = disk
                /\ lock' = 0
                /\ inst[i].op = "set" =>
                      inst'[i].pc = "idle" /\ inst'[i].result = "raised"]_vars

\* a direct set_json failed on its expected revision, the lock is free again
\* and the other instance has written after it
C12_Witness ==
    \E i \in Stores : \E j \in Stores \ {i} :
        /\ inst[i].op = "set"
        /\ inst[i].error = "concurrent"
        /\ inst[i].result = "raised"
        /\ inst[j].result = "ok"
        /\ inst[j].data[Len(inst[j].data)] > inst[i].data[1]
        /\ disk.data = inst[j].data

BranchHistory(g) == Reachable(g, HeadCommit(g))

\* the step is a reject_patch that returned its patch
RejectSucceeds ==
    /\ pcalls' = pcalls + 1
    /\ pcall'.op = "reject_patch"
    /\ pcall'.error = "none"

\* C14: after reject_patch(H) succeeds, H is still in the history of the
\* current branch, the head of the branch is a new commit whose subject is a
\* revert, patch_lifecycle[H] is rejected, and no commit that was in the
\* history before the call has left it.
C14_RejectRevertsAndKeepsHistory ==
    [][RejectSucceeds =>
          /\ pcall'.result.commit_hash \in BranchHistory(git')
          /\ HeadCommit(git') \notin git.made
          /\ git'.subject[HeadCommit(git')] = "Revert"
          /\ metrics'.patch_lifecycle[pcall'.result.commit_hash] = "rejected"
          /\ BranchHistory(git) \subseteq BranchHistory(git')]_vars

\* the step is a rollback that raised nothing
RollbackSucceeds ==
    /\ pcalls' = pcalls + 1
    /\ pcall'.op = "rollback"
    /\ pcall'.error = "none"

\* C15: rollback(C) leaves the caller on a newly created branch named
\* architect/rollback-..., whose head is the commit of checkpoint C, returns
\* the name of that branch, and leaves the branch that was checked out
\* before the call at the commit it was at.
C15_RollbackChecksOutSafetyBranch ==
    [][RollbackSucceeds =>
          /\ git'.head \in RollbackBranches
          /\ git.branch[git'.head] = NoCommit
          /\ HeadCommit(git') = git.tags[pcall'.checkpoint_id]
          /\ pcall'.returned = git'.head
          /\ git'.branch[git.head] = git.branch[git.head]]_vars

\* the step is a create_task_patch_from_worktree whose staged changes hold
\* a forbidden path or more files than max_files
StagesAgainstGuardrail ==
    /\ pcalls' = pcalls + 1
    /\ pcall'.op = "create_task_patch_from_worktree"
    /\ \/ pcall'.staged \cap pcall'.forbidden_paths # {}
       \/ Cardinality(pcall'.staged) > pcall'.max_files

\* C16: create_task_patch_from_worktree called when the staged changes hold
\* a forbidden path, or more files than max_files, fails with the pre-commit
\* guardrail error, makes no commit (HEAD is what it was), records nothing
\* in patch_index, patch_lifecycle and patch_stack, and leaves the working
\* tree as it was.
C16_GuardrailLeavesRepositoryAlone ==
    [][StagesAgainstGuardrail =>
          /\ pcall'.error = "guardrail"
          /\ HeadCommit(git') = HeadCommit(git)
          /\ git'.made = git.made
          /\ git'.worktree = git.worktree
          /\ metrics' = metrics]_vars

\* a call with changes staged has failed on the guardrail
C16_Witness ==
    /\ pcall.op = "create_task_patch_from_worktree"
    /\ pcall.error = "guardrail"
    /\ pcall.staged # {}
    /\ git.worktree # {}

\* C18: every listing, whatever the metrics hold (legacy positional ids
\* included) and whatever base ref it is given, reports for each commit the
\* patch id "patch-" + the first 8 characters of its hash, so that a second
\* listing of the same history gives the same ids in the same order.
C18_ListedIdsAreCanonical ==
    pcall.op = "list_patches" =>
        \A i \in 1..Len(pcall.listing) :
            pcall.listing[i].patch_id = PatchIdForCommit(pcall.listing[i].commit_hash)

\* C19: resolve_patch tries the exact patch id before the hash prefix, the
\* id prefix and the legacy position, so that the patch id of every listed
\* patch resolves to that patch, also when its characters are all digits.
C19_OwnIdResolvesToPatch ==
    pcall.op = "resolve_patch" =>
        LET listing == ListPatches(git, metrics, pcall.base_ref)
        IN  \A i \in 1..Len(listing) :
                listing[i].patch_id = pcall.patch_ref => pcall.result = listing[i]

(***************************************************************************)
(* Properties of the Supervisor's patch creation (Spec).                   *)
(***************************************************************************)
\* the step is an attempt in which the patch manager raised its pre-commit
\* guardrail error
GuardrailRaised(p) ==
    /\ sup[p].pc = "attempt"
    /\ sup'[p].patch_error = "guardrail"

WorktreeTypes == {"implement", "document"}

\* the tasks of the sequence that are in_progress
InProgress(tasks) == {i \in 1..Len(tasks) : tasks[i].status = "in_progress"}

\* the types of the tasks of the batch the process is working through
BatchTypes(p) ==
    {TaskById(sup[p].tasks, sup[p].batch[i]).type : i \in 1..Len(sup[p].batch)}

\* what holds of every batch and of the tasks in flight, whatever the type
BatchesAreBounded(p) ==
    /\ Cardinality({i \in InProgress(sup[p].tasks) :
                        sup[p].tasks[i].type \in WorktreeTypes}) <= 1
    /\ sup[p].remediation =>
           \A i \in InProgress(sup[p].tasks) :
               sup[p].tasks[i].type \notin WorktreeTypes
    /\ Len(sup[p].batch) <= Max(1, config.max_parallel_tasks)
    /\ Cardinality(BatchTypes(p)) <= 1

CompletedIds(tasks) ==
    {tasks[i].id : i \in {j \in 1..Len(tasks) : tasks[j].status = "completed"}}

\* the newest recorded gate is the gate of the task and passed
GatePassedFor(task_id) ==
    store.metrics.last_gate = [task_id |-> task_id, passed |-> TRUE]

Enters(p, resume) ==
    sup[p].pc = "idle" /\ sup'[p].pc = "acquire" /\ sup'[p].resume = resume

\* the stored queue with every in_progress task set back to pending
Demoted(queue, tasks) ==
    /\ Len(tasks) = Len(queue)
    /\ \A i \in 1..Len(queue) :
           /\ tasks[i].id = queue[i].id
           /\ tasks[i].depends_on = queue[i].depends_on
           /\ tasks[i].status = IF queue[i].status = "in_progress" THEN "pending"
                                ELSE queue[i].status

ToolCall == fcall.op \in {"specialist_run", "run_specialist"}

\* the place of a name in the sorted order
Rank(name) == CHOOSE i \in 1..Len(ToolOrder) : ToolOrder[i] = name

\* the tools handed to the backend: within the allow-list, ascending, so
\* without duplicates
ToolsPassedAreNormal ==
    fcall.backend_calls = 1 =>
        /\ \A i \in 1..Len(fcall.tools) : fcall.tools[i] \in TOOL_POLICY_ALLOWLIST
        /\ \A i, j \in 1..Len(fcall.tools) :
               i < j => Rank(fcall.tools[i]) < Rank(fcall.tools[j])

\* the call was refused with the tool-policy error before the backend
Rejected == fcall.error = "tool_policy" /\ fcall.backend_calls = 0

\* C25 as claimed: a specialist run, or a task, whose allowed tools hold a
\* string that is not one of the allow-list is rejected before the backend
\* is invoked, and the tools a backend call gets are a sorted subset of the
\* allow-list without duplicates.
C25_UnknownToolsRejected ==
    ToolCall =>
        /\ (\E i \in 1..Len(fcall.allowed_tools) : ~InAllowList(fcall.allowed_tools[i]))
               => Rejected
        /\ ToolsPassedAreNormal

\* C25 amended: the call is rejected before the backend is invoked exactly
\* when a string of its allowed tools, white space around it stripped, is
\* neither empty nor one of the allow-list; empty strings are dropped, and a
\* list that holds nothing else runs the backend without tools; the tools a backend
\* call gets are a sorted subset of the allow-list without duplicates.
C25_UnknownStrippedToolsRejected ==
    ToolCall =>
        /\ Rejected <=>
               \E i \in 1..Len(fcall.allowed_tools) :
                   Strip(fcall.allowed_tools[i]) \notin TOOL_POLICY_ALLOWLIST \cup {""}
        /\ ~Rejected => fcall.backend_calls = 1
        /\ (/\ fcall.allowed_tools # <<>>
            /\ \A i \in 1..Len(fcall.allowed_tools) : Strip(fcall.allowed_tools[i]) = "")
               => ~fcall.tool_mode
        /\ ToolsPassedAreNormal

\* a task that names search, then read_file in white space, has reached the
\* backend with the two in sorted order
C25_Witness ==
    /\ fcall.op = "run_specialist"
    /\ Len(fcall.allowed_tools) = 2
    /\ fcall.allowed_tools[1] = [name |-> "search", padded |-> FALSE]
    /\ fcall.allowed_tools[2] = [name |-> "read_file", padded |-> TRUE]
    /\ fcall.backend_calls = 1
    /\ fcall.tools = <<"read_file", "search">>

IsPrefix(s, t) == Len(s) <= Len(t) /\ SubSeq(t, 1, Len(s)) = s

\* C27: every write of the namespace keeps the list stored before as the
\* beginning of the new list, and every list an add call has written, the
\* entry it added at its end, is the beginning of the list stored now:
\* however the calls of the writers interleave, no added entry is lost.
C27_ListsAreAppendOnly ==
    /\ [][IsPrefix(GetEnvelope(disk).data, GetEnvelope(disk').data)]_vars
    /\ [](\A w \in written : IsPrefix(w.data, disk.data))

\* both writers have added entries, one of them on a second try after the
\* other's write had come between its read and its write
C27_Witness ==
    /\ \E w1, w2 \in written : w1.writer # w2.writer
    /\ \E i \in Stores :
           /\ inst[i].result = "ok"
           /\ inst[i].tried >= 1
           /\ disk.data[Len(disk.data)] = inst[i].data[Len(inst[i].data)]
    /\ Len(disk.data) >= 3

(***************************************************************************)
(* Properties of the testing gate (SpecCoverage).                          *)
(***************************************************************************)
\* the numbers NN% of a text: one to three digits, no digit before them, the
\* per cent sign after them
Percentages(text) ==
    {ParseInt(SubSeq(text, i, i + k - 1)) :
        <<i, k>> \in {m \in (1..Len(text)) \X (1..3) :
                         /\ m[1] + m[2] <= Len(text)
                         /\ IsDigit(SubSeq(text, m[1], m[1] + m[2] - 1))
                         /\ text[m[1] + m[2]] = "%"
                         /\ (m[1] = 1 \/ ~IsDigit(<<text[m[1] - 1]>>))}}

\* C28: with auto_test on, a threshold above 0 and a test command that
\* exits 0, the coverage the gate parses is the largest NN% of the output,
\* clamped to [0,100], or none when the output holds no NN%; the gate fails
\* exactly when that value is below the threshold or there is none; and the
\* output "coverage: 72%" under the threshold 80 fails with a reason that
\* names the threshold and the parsed value 72.
C28_CoverageGate ==
    (/\ fcall.op = "testing_gate"
     /\ fcall.auto_test /\ fcall.exit_code = 0 /\ fcall.threshold > 0) =>
        LET found == Percentages(fcall.stdout_tail)
            largest == CHOOSE p \in found : \A q \in found : q <= p
            parsed == IF found = {} THEN NoCoverage ELSE Min(100, largest)
        IN  /\ fcall.actual = parsed
            /\ fcall.passed <=> (parsed # NoCoverage /\ parsed >= fcall.threshold)
            /\ (fcall.stdout_tail = <<"x", " ", "7", "2", "%">> /\ fcall.threshold = 80)
                   => /\ ~fcall.passed
                      /\ fcall.reason = "Coverage threshold failed"
                      /\ fcall.actual = 72

(***************************************************************************)
(* Properties of the task graph (SpecGraph).                               *)
(***************************************************************************)
\* the implementation tasks in the order given: modify tasks, then plan steps
ImplementationIds(n_modify, n_steps) ==
    [j \in 1..n_modify |-> <<"modify", j>>] \o
    [i \in 1..(IF n_steps = 0 THEN 1 ELSE n_steps) |-> <<"implement", i>>]

\* the ids a set of ids depends on, directly or through at most n tasks
RECURSIVE DependsOnWithin(_, _, _)
DependsOnWithin(tasks, ids, n) ==
    IF n = 0 THEN ids
    ELSE DependsOnWithin(tasks,
             ids \cup UNION {tasks[i].depends_on : i \in {x \in 1..Len(tasks) : tasks[x].id \in ids}},
             n - 1)

\* the tasks of a graph that carry the id
TasksWithId(tasks, id) == {i \in 1..Len(tasks) : tasks[i].id = id}

\* C29: the graph built from modify tasks followed by one implement task per
\* plan step, in chunks of k = max(1, max_patches_before_review), is acyclic
\* and closed under depends_on; chunk i's test task depends on exactly chunk
\* i's implementation tasks, its review task exists exactly with the critic
\* and depends on exactly the test task, each implementation task of chunk i
\* depends on exactly the gate of chunk i-1 (the plan task for chunk 1), and
\* the document task depends on exactly the last gate.
C29_TaskGraphShape ==
    fcall.op = "task_graph" =>
        LET tasks == fcall.tasks
            k == Max(1, fcall.max_patches_before_review)
            impl == ImplementationIds(fcall.n_modify, fcall.n_steps)
            n == Len(impl)
            chunks == (n + k - 1) \div k
            ChunkOf(j) == ((j - 1) \div k) + 1
            Gate(i) == IF i = 0 THEN PlanId
                       ELSE IF fcall.critic THEN <<"review", i>> ELSE <<"test", i>>
            DependsOn(id) == {tasks[x].depends_on : x \in TasksWithId(tasks, id)}
        IN  /\ \A x \in 1..Len(tasks) :
                  /\ tasks[x].depends_on \subseteq SeqRange(TaskIds(tasks))
                  /\ tasks[x].id \notin
                         DependsOnWithin(tasks, tasks[x].depends_on, Len(tasks))
            /\ \A i \in 1..chunks :
                  /\ DependsOn(<<"test", i>>) = {{impl[j] : j \in {y \in 1..n : ChunkOf(y) = i}}}
                  /\ DependsOn(<<"review", i>>) =
                         IF fcall.critic THEN {{<<"test", i>>}} ELSE {}
            /\ \A j \in 1..n : DependsOn(impl[j]) = {{Gate(ChunkOf(j) - 1)}}
            /\ DependsOn(DocumentId) = {{Gate(chunks)}}
            /\ {tasks[x].id : x \in 1..Len(tasks)} =
                   {PlanId, DocumentId} \cup SeqRange(impl)
                   \cup {<<"test", i>> : i \in 1..chunks}
                   \cup (IF fcall.critic THEN {<<"review", i>> : i \in 1..chunks} ELSE {})

\* a graph with the critic, a modify task, and a second chunk after a full
\* first chunk of two tasks
C29_Witness ==
    /\ fcall.op = "task_graph"
    /\ fcall.critic /\ fcall.n_modify = 1 /\ fcall.n_steps = 3
    /\ fcall.max_patches_before_review = 2
    /\ Len(fcall.tasks) = 10

(***************************************************************************)
(* Properties of the attempt loop (SpecAttempts).                          *)
(***************************************************************************)
\* the places of a call in the calls made so far
CallsOf(calls, name) == {i \in 1..Len(calls) : calls[i] = name}

\* C30: for a dispatched task the specialist runs at most
\* max(1, task_max_attempts) times; between a failed gate with attempts left
\* and the next run of the specialist lie exactly one replan and one
\* increment of replan_count, in that order, and without them no next run;
\* the task is marked failed only right after the failed gate of attempt
\* max(1, task_max_attempts); and once a gate has passed the specialist
\* does not run again.
C30_AttemptsAndReplans ==
    fcall.op = "attempt_loop" =>
        LET calls == fcall.calls
            limit == Max(1, fcall.task_max_attempts)
            runs == CallsOf(calls, "run_specialist")
            RunsBefore(i) == Cardinality({j \in runs : j < i})
            Between(name, i, j) == {x \in CallsOf(calls, name) : i < x /\ x < j}
        IN  /\ Cardinality(runs) <= limit
            /\ fcall.attempt = Cardinality(runs)
            /\ fcall.replan_count >= Cardinality(CallsOf(calls, "run_replan"))
            /\ \A i \in CallsOf(calls, "gate_failed") :
                  \A j \in runs :
                      (i < j /\ RunsBefore(j) = RunsBefore(i)) =>
                          /\ RunsBefore(i) < limit
                          /\ \E r \in Between("run_replan", i, j) :
                                /\ Between("run_replan", i, j) = {r}
                                /\ Between("increment_replan_count", i, j) = {r + 1}
            /\ \A i \in CallsOf(calls, "gate_failed") :
                  (RunsBefore(i) < limit /\ i = Len(calls)) => fcall.pc = "replan"
            /\ \A r \in CallsOf(calls, "run_replan") :
                  /\ RunsBefore(r) < limit
                  /\ \E i \in CallsOf(calls, "gate_failed") :
                        i < r /\ RunsBefore(i) = RunsBefore(r)
                              /\ Between("run_replan", i, r) = {}
            /\ \A f \in CallsOf(calls, "mark_failed") :
                  /\ f > 1 /\ calls[f - 1] = "gate_failed"
                  /\ RunsBefore(f) = limit
            /\ (fcall.status = "failed") = (CallsOf(calls, "mark_failed") # {})
            /\ \A i \in CallsOf(calls, "gate_passed") : \A j \in runs : j < i

\* a task failed at its second and last attempt, after one replan
C30_Witness ==
    /\ fcall.op = "attempt_loop"
    /\ fcall.status = "failed"
    /\ fcall.task_max_attempts = 2 /\ fcall.attempt = 2
    /\ fcall.replan_count = 1
    /\ CallsOf(fcall.calls, "run_replan") # {}

\* C31: over a run the conflict-resolution cycles started never exceed
\* max(0, max_conflict_cycles), and a cycle is started only in the step
\* right after a failed gate of a review task whose output was not empty
\* and which has attempts left.
C31_ConflictCyclesBounded ==
    /\ [](fcall.op = "attempt_loop" =>
              fcall.conflict_cycles <= Max(0, fcall.max_conflict_cycles))
    /\ [][(fcall.op = "attempt_loop" /\ fcall'.conflict_cycles # fcall.conflict_cycles) =>
              /\ fcall'.conflict_cycles = fcall.conflict_cycles + 1
              /\ fcall.type = "review" /\ fcall.output = "text"
              /\ fcall.calls # <<>> /\ fcall.calls[Len(fcall.calls)] = "gate_failed"
              /\ fcall.attempt < Max(1, fcall.task_max_attempts)
              /\ fcall'.calls[Len(fcall'.calls)] = "run_conflict_resolution"]_vars
    /\ [][(fcall.op = "attempt_loop"
              /\ Len(fcall'.calls) > Len(fcall.calls)
              /\ fcall'.calls[Len(fcall'.calls)] = "run_conflict_resolution") =>
              fcall'.conflict_cycles = fcall.conflict_cycles + 1]_vars

\* the second review task of a run fails a gate with output after the first
\* has used the one cycle allowed: no further cycle is started
C31_Witness ==
    /\ fcall.op = "attempt_loop"
    /\ fcall.dispatched = 2 /\ fcall.type = "review"
    /\ fcall.max_conflict_cycles = 1 /\ fcall.conflict_cycles = 1
    /\ fcall.output = "text" /\ fcall.attempt = 2
    /\ CallsOf(fcall.calls, "run_replan") # {}
    /\ CallsOf(fcall.calls, "run_conflict_resolution") = {}

(***************************************************************************)
(* Termination of run() (SpecTermination).                                 *)
(***************************************************************************)
\* the process is inside the batch loop of run()
InBatchLoop(locals) == locals.pc \in {"dispatch", "attempt", "complete", "fail"}

\* the process is at the top of the main loop: a batch just formed, or the
\* ready list found empty
AtLoopTop(locals) ==
    \/ locals.pc = "dispatch" /\ locals.batch_index = 1
    \/ locals.pc = "finish"

RECURSIVE Joined(_, _)
Joined(lines, n) == IF n = 0 THEN <<>> ELSE Joined(lines, n - 1) \o lines[n]

\* the stream is one JSON record printed over two or more lines
IsSplitRecord(lines) ==
    /\ Len(lines) >= 2
    /\ \A i \in 1..Len(lines) : lines[i] # <<>>
    /\ JsonLoads(Joined(lines, Len(lines))) = "dict"
    /\ \A n \in 1..(Len(lines) - 1) : JsonLoads(Joined(lines, n)) = "JSONDecodeError"

\* C33: with the buffer empty at the start, a line that completes a JSON
\* text is processed once and empties the buffer; a line that does not and
\* leaves more opening than closing braces or brackets is kept in the
\* buffer and yields nothing; any other line is yielded as raw text, or
\* dropped with a telemetry event, and empties the buffer; so a JSON record
\* split over consecutive lines is processed as one event.  (An event is a
\* JSON object; of a JSON text of another type only the emptied buffer is
\* asked.)
C33_LineReassembly ==
    /\ [][(fcall.op = "stream" /\ fcall.pc = "reading"
              /\ fcall.next <= Len(fcall.lines)
              /\ fcall.lines[fcall.next] # <<>>) =>
            LET line == fcall.lines[fcall.next]
                candidate == fcall.parse_buffer \o line
                content == ExtractContent(candidate)
                opens == \/ RawCount(candidate, "{") > RawCount(candidate, "}")
                         \/ RawCount(candidate, "[") > RawCount(candidate, "]")
            IN  IF JsonLoads(candidate) = "dict" THEN
                    /\ fcall'.parse_buffer = <<>>
                    /\ fcall'.pc = "reading"
                    /\ fcall'.yielded = IF content # <<>>
                                        THEN Append(fcall.yielded, content)
                                        ELSE fcall.yielded
                ELSE IF JsonLoads(candidate) = "other" THEN
                    fcall'.parse_buffer = <<>>
                ELSE IF opens THEN
                    /\ fcall'.parse_buffer = candidate
                    /\ fcall'.yielded = fcall.yielded
                ELSE
                    /\ fcall'.parse_buffer = <<>>
                    /\ IF fcall.backend = "claude"
                       THEN fcall'.yielded = Append(fcall.yielded, line)
                       ELSE /\ fcall'.yielded = fcall.yielded
                            /\ fcall'.emitted =
                                   Append(fcall.emitted, "codex_json_parse_fallback")]_vars
    /\ [](fcall.op = "stream" /\ fcall.pc = "wait" /\ IsSplitRecord(fcall.lines) =>
              LET content == ExtractContent(Joined(fcall.lines, Len(fcall.lines)))
              IN  fcall.yielded = IF content # <<>> THEN <<content>> ELSE <<>>)

\* C40: every line that is by itself a JSON event with content has its
\* content yielded, whatever lines that do not parse come before it.
C40_CompleteEventsSurvive ==
    (fcall.op = "stream" /\ fcall.pc = "wait") =>
        LET events == {i \in 1..Len(fcall.lines) :
                          /\ JsonLoads(fcall.lines[i]) = "dict"
                          /\ ExtractContent(fcall.lines[i]) # <<>>}
            chunks == {j \in 1..Len(fcall.yielded) :
                          \E i \in events : fcall.yielded[j] = ExtractContent(fcall.lines[i])}
        IN  Cardinality(chunks) >= Cardinality(events)

(***************************************************************************)
(* The lease at the end of run() (SpecRelease).                            *)
(***************************************************************************)
\* run() of the process has ended after it had acquired the lease
EndedAfterLease(p) ==
    /\ sup[p].pc = "idle"
    /\ sup[p].outcome \notin {"none", "paused", "lease_conflict"}

RefusedStep(p) ==
    /\ sup[p].pc = "acquire" /\ ~sup[p].resume
    /\ sup'[p].pc = "idle" /\ sup'[p].outcome = "lease_conflict"

GraphTaskIds ==
    {<<type, i>> : type \in {"plan", "modify", "implement", "test", "review", "document"},
                   i \in 1..(MaxSteps + MaxModify)}

\* run(goal, resume=true) has taken up a queue in which the task is failed
ResumesWithFailed(p, id) ==
    /\ sup[p].pc = "acquire" /\ sup[p].resume
    /\ HasTask(sup[p].tasks, id) /\ TaskById(sup[p].tasks, id).status = "failed"

C37_GraphFromPassingPlan ==
    fcall.op = "attempt_loop" =>
        /\ fcall.expansions <= 1
        /\ (fcall.type = "plan" /\ fcall.pc = "complete") =>
               fcall.implement_tasks = fcall.plan_steps

(***************************************************************************)
(* The stored status of a task during a run (SpecTermination).             *)
(***************************************************************************)
\* the status the tasks namespace holds for the task
StoredStatus(id) ==
    IF HasTask(store.tasks, id) THEN TaskById(store.tasks, id).status ELSE "absent"

EntriesOf(data) == {data[k] : k \in 1..Len(data)}

\* C39: when the writers of the metrics namespace are at rest, the stored
\* metrics hold the change of every write that returned: no update is lost,
\* however the writers interleave.
C39_NoLostMetricsUpdate ==
    (\A i \in Stores : inst[i].pc = "idle") =>
        \A w \in written : w.data[Len(w.data)] \in EntriesOf(disk.data)

====
